---------------------------- MODULE Spec2Model ----------------------------
(***************************************************************************)
(* A model of the cf-backtester engine (internal/backtester/engine.go),    *)
(* its Capital Flow calculator (internal/strategy/cf_calculator.go) and    *)
(* its ATR calculator (the strategy package in internal/uploader/csv.go).  *)
(*                                                                         *)
(* Spec    : Engine.Run, from the strategy lookup to the persisted result, *)
(*           with the walk-forward loop of executeBacktest one bar per     *)
(*           step.  executeBacktest reads its candle and indicator arrays  *)
(*           at index i (and mainCF at i-1) only, so the arrays are        *)
(*           supplied bar by bar as the loop reaches them.                 *)
(* SpecCF  : CFCalculator.calculateNewTotalKlines on bounded inputs.       *)
(* SpecATR : ATRCalculator.Calculate on bounded inputs.                    *)
(* SpecADX : ADXCalculator.Calculate on bounded inputs.                    *)
(* SpecCausal : the indicator arrays of Run for two series that agree up   *)
(*           to an index.                                                  *)
(* SpecServe : concurrent requests to Server.runBacktest, one engine per   *)
(*           request, one shared database.                                 *)
(* SpecEntry : checkEntrySignal and openPosition on bounded inputs.        *)
(* SpecWindows : calculateCFIndicators and CalculateSecondCF on bounded     *)
(*           series, for the short window and the window at the end.       *)
(* SpecLevels : openPosition, closePosition and the P&L of the trade with  *)
(*           the levels rounded as floats.                                 *)
(*                                                                         *)
(* float64 values are modelled as exact rationals [n, d]; d = 0 stands for *)
(* the non-finite results of a division by zero (+Inf, -Inf, NaN).  The    *)
(* exponential moving averages of the ATR and ADX calculators are rounded  *)
(* after every operation to a binary format of MantissaBits bits, with     *)
(* the fusing of a multiply-add left to the build; so are the levels of    *)
(* SpecLevels.                                                             *)
(***************************************************************************)
EXTENDS Integers, Sequences, FiniteSets, TLC

VARIABLES
    pc,               \* position of Run / of the pure-function harness
    calls,            \* collaborator calls made by Run, in order
    strategy,         \* the strategy loaded by GetStrategyByName, or Nil
    n,                \* len(candles) of the fetched series
    i,                \* loop index of executeBacktest
    candle,           \* candles[i] of the latest iteration, kept while a trade
                      \* closed against it or the forced closure can read it
    prevMainCF,       \* mainCF[i-1] for the bar about to be processed
    longCond,         \* history: the LONG conditions held at index i-1
    currentPosition,  \* *Position, Nil when flat
    currentBalance,   \* simulated cash balance
    trades,           \* the trade ledger
    opened,           \* history: the positions opened so far
    result,           \* the BacktestResult under construction, or Nil
    divisions,        \* history: float divisions executed by calculateMetrics
    dbResults,        \* rows of backtest_results
    raised,           \* the error a collaborator returned, or Nil
    retResult,        \* Run's first return value
    retErr,           \* Run's second return value
    arg,              \* arguments of the pure function under check
    ret               \* its return value

vars == <<pc, calls, strategy, n, i, candle, prevMainCF, longCond, currentPosition,
          currentBalance, trades, opened, result, divisions, dbResults, raised, retResult, retErr, arg, ret>>

runVars == <<pc, calls, strategy, n, i, candle, prevMainCF, longCond, currentPosition,
             currentBalance, trades, opened, result, divisions, dbResults, raised, retResult, retErr>>

\* the nil pointer (to a Position, a Strategy, a BacktestResult) and the nil error
Nil == [nil |-> TRUE]

NoError == [msg |-> "nil"]

-----------------------------------------------------------------------------
(* Bounds of the model *)

MaxBars == 6
MaxPrice == 6
MaxATR == 1
MaxDI == 1

-----------------------------------------------------------------------------
(* float64 as exact rationals *)

Abs(x) == IF x < 0 THEN -x ELSE x

Sign(x) == IF x < 0 THEN -1 ELSE IF x > 0 THEN 1 ELSE 0

RECURSIVE Gcd(_, _)
Gcd(a, b) == IF b = 0 THEN a ELSE Gcd(b, a % b)

\* the rational p/q in lowest terms with a positive denominator; q = 0 gives
\* the non-finite value of the sign of p (0/0 is NaN)
Rat(p, q) ==
    IF q = 0 THEN [n |-> Sign(p), d |-> 0]
    ELSE LET g == Gcd(Abs(p), Abs(q))
             s == IF q < 0 THEN -1 ELSE 1
         IN  [n |-> s * (p \div g), d |-> s * (q \div g)]

R(k) == [n |-> k, d |-> 1]

IsFinite(x) == x.d # 0

RAdd(x, y) ==
    IF x.d = 0 \/ y.d = 0
    THEN [n |-> IF x.d = 0 /\ y.d = 0 /\ x.n # y.n THEN 0
                ELSE IF x.d = 0 THEN x.n ELSE y.n, d |-> 0]
    ELSE Rat(x.n * y.d + y.n * x.d, x.d * y.d)

RNeg(x) == [n |-> -x.n, d |-> x.d]

RSub(x, y) == RAdd(x, RNeg(y))

RMul(x, y) ==
    IF x.d = 0 \/ y.d = 0
    THEN [n |-> Sign(x.n) * Sign(y.n), d |-> 0]
    ELSE LET g1 == Gcd(Abs(x.n), y.d)
             g2 == Gcd(Abs(y.n), x.d)
         IN  Rat((x.n \div g1) * (y.n \div g2), (x.d \div g2) * (y.d \div g1))

\* x / y as float64 divides: a zero divisor gives +Inf, -Inf or NaN, no panic
RDiv(x, y) ==
    IF x.d = 0 \/ y.d = 0
    THEN IF x.d = 0 /\ y.d = 0 THEN [n |-> 0, d |-> 0]
         ELSE IF x.d = 0 THEN [n |-> x.n * (IF y.n < 0 THEN -1 ELSE 1), d |-> 0]
         ELSE R(0)
    ELSE IF y.n = 0 THEN [n |-> Sign(x.n), d |-> 0]
    ELSE RMul(x, Rat(y.d, y.n))

IsNaN(x) == x.d = 0 /\ x.n = 0

\* comparisons; every comparison with NaN is false
RLt(x, y) ==
    IF IsNaN(x) \/ IsNaN(y) THEN FALSE
    ELSE IF x.d = 0 /\ y.d = 0 THEN x.n < y.n
    ELSE IF x.d = 0 THEN x.n < 0
    ELSE IF y.d = 0 THEN y.n > 0
    ELSE x.n * y.d < y.n * x.d

RGt(x, y) == RLt(y, x)

REq(x, y) == ~IsNaN(x) /\ ~IsNaN(y) /\ x = y

RLe(x, y) == RLt(x, y) \/ REq(x, y)

RNe(x, y) == ~REq(x, y)

-----------------------------------------------------------------------------
(* Inputs of a run *)

\* timestamps come from GetCandlesByTimeRange ordered ascending over a column
\* that is unique per instrument: the candle at index k carries timestamp k
Prices == 1..MaxPrice

Bar(k, lo, hi, cl) == [Timestamp |-> k, Low |-> lo, High |-> hi, Close |-> cl]

\* well-formed candles: Low <= Close <= High
Candles(k) ==
    {c \in {Bar(k, lo, hi, cl) : lo \in Prices, hi \in Prices, cl \in Prices} :
        c.Low <= c.Close /\ c.Close <= c.High}

NoCandle == [Timestamp |-> 0, Low |-> 0, High |-> 0, Close |-> 0]

ADXThreshold == 25

CFValues == {-1, 0, 1}

\* mainCF[idx] as calculateCFIndicators fills it: the windows that end at an
\* index below 3 hold fewer than 4 candles, for which calculateCF returns the
\* prevCF it is handed, 0 (and index 0 is skipped)
CFInputs(idx) == IF idx + 1 < 4 THEN {0} ELSE CFValues

ADXValues == {ADXThreshold, ADXThreshold + 1}

DIValues == 0..MaxDI

ATRValues == 0..MaxATR

\* error values of the storage collaborator
Err(m) == [msg |-> m]

StrategyErrors == {Err("sql: no rows in result set"), Err("invalid character")}

CandleErrors == {Err("candles: query failed")}

SaveErrors == {Err("backtest_results: insert failed")}

LoadedStrategy == [ID |-> 3, Config |-> [ADXThreshold |-> ADXThreshold]]

-----------------------------------------------------------------------------
(* internal/backtester/engine.go *)

InitialBalance == 10000

initialBalance == R(InitialBalance)

NewResult ==
    [InstrumentID |-> 0, StrategyID |-> 0, TotalTrades |-> 0,
     WinningTrades |-> 0, LosingTrades |-> 0, WinRate |-> R(0),
     TotalPnL |-> R(0), TotalReturn |-> R(0), Metrics |-> <<>>]

\* a variant of the entry rule that asks for a strictly negative (positive)
\* previous MainCF
checkEntrySignalStrict(idx, cf, cfPrev, adx, plusDI, minusDI, strat) ==
    IF idx < 2 THEN ""
    ELSE IF cf > 0 /\ cfPrev < 0
            /\ adx > strat.Config.ADXThreshold /\ plusDI > minusDI
    THEN "LONG"
    ELSE IF cf < 0 /\ cfPrev > 0
            /\ adx > strat.Config.ADXThreshold /\ minusDI > plusDI
    THEN "SHORT"
    ELSE ""

\* the entry rule, on mainCF[idx], mainCF[idx-1], adx[idx], plusDI[idx] and
\* minusDI[idx]
\* a variant of the entry rule that accepts an ADX equal to the threshold
checkEntrySignalAtThreshold(idx, cf, cfPrev, adx, plusDI, minusDI, strat) ==
    IF idx < 2 THEN ""
    ELSE IF cf > 0 /\ cfPrev <= 0
            /\ adx >= strat.Config.ADXThreshold /\ plusDI > minusDI
    THEN "LONG"
    ELSE IF cf < 0 /\ cfPrev >= 0
            /\ adx >= strat.Config.ADXThreshold /\ minusDI > plusDI
    THEN "SHORT"
    ELSE ""

\* a variant of the entry rule that does not look at the previous MainCF
checkEntrySignalNoCrossing(idx, cf, cfPrev, adx, plusDI, minusDI, strat) ==
    IF idx < 2 THEN ""
    ELSE IF cf > 0
            /\ adx > strat.Config.ADXThreshold /\ plusDI > minusDI
    THEN "LONG"
    ELSE IF cf < 0
            /\ adx > strat.Config.ADXThreshold /\ minusDI > plusDI
    THEN "SHORT"
    ELSE ""

checkEntrySignal(idx, cf, cfPrev, adx, plusDI, minusDI, strat) ==
    IF idx < 2 THEN ""
    ELSE IF cf > 0 /\ cfPrev <= 0
            /\ adx > strat.Config.ADXThreshold /\ plusDI > minusDI
    THEN "LONG"
    ELSE IF cf < 0 /\ cfPrev >= 0
            /\ adx > strat.Config.ADXThreshold /\ minusDI > plusDI
    THEN "SHORT"
    ELSE ""

\* a variant of openPosition with the two ATR multiples exchanged
openPositionSwapped(signal, c, atr, balance) ==
    [Side       |-> signal,
     EntryPrice |-> c.Close,
     EntryTime  |-> c.Timestamp,
     Size       |-> RDiv(RMul(balance, Rat(1, 10)), R(c.Close)),
     StopLoss   |-> IF signal = "LONG" THEN c.Close - 3 * atr
                    ELSE c.Close + 3 * atr,
     TakeProfit |-> IF signal = "LONG" THEN c.Close + 2 * atr
                    ELSE c.Close - 2 * atr]

\* a variant of openPosition that stakes the whole balance
openPositionAllIn(signal, c, atr, balance) ==
    [Side       |-> signal,
     EntryPrice |-> c.Close,
     EntryTime  |-> c.Timestamp,
     Size       |-> RDiv(balance, R(c.Close)),
     StopLoss   |-> IF signal = "LONG" THEN c.Close - 2 * atr
                    ELSE c.Close + 2 * atr,
     TakeProfit |-> IF signal = "LONG" THEN c.Close + 3 * atr
                    ELSE c.Close - 3 * atr]

openPosition(signal, c, atr, balance) ==
    [Side       |-> signal,
     EntryPrice |-> c.Close,
     EntryTime  |-> c.Timestamp,
     Size       |-> RDiv(RMul(balance, Rat(1, 10)), R(c.Close)),
     StopLoss   |-> IF signal = "LONG" THEN c.Close - 2 * atr
                    ELSE c.Close + 2 * atr,
     TakeProfit |-> IF signal = "LONG" THEN c.Close + 3 * atr
                    ELSE c.Close - 3 * atr]

checkExitSignal(position, c) ==
    IF position.Side = "LONG"
    THEN c.Low <= position.StopLoss \/ c.High >= position.TakeProfit
    ELSE c.High >= position.StopLoss \/ c.Low <= position.TakeProfit

\* a variant of the exit price that tests the take-profit first
exitPriceOfTakeProfitFirst(position, c) ==
    IF position.Side = "LONG"
    THEN IF c.High >= position.TakeProfit THEN position.TakeProfit
         ELSE IF c.Low <= position.StopLoss THEN position.StopLoss
         ELSE c.Close
    ELSE IF c.Low <= position.TakeProfit THEN position.TakeProfit
         ELSE IF c.High >= position.StopLoss THEN position.StopLoss
         ELSE c.Close

\* the exit price closePosition determines: the stop-loss is tested first
exitPriceOf(position, c) ==
    IF position.Side = "LONG"
    THEN IF c.Low <= position.StopLoss THEN position.StopLoss
         ELSE IF c.High >= position.TakeProfit THEN position.TakeProfit
         ELSE c.Close
    ELSE IF c.High >= position.StopLoss THEN position.StopLoss
         ELSE IF c.Low <= position.TakeProfit THEN position.TakeProfit
         ELSE c.Close

\* a variant of closePosition that stamps the exit with the following bar
closePositionNextBar(position, c) ==
    [Side       |-> position.Side,
     EntryPrice |-> position.EntryPrice,
     EntryTime  |-> position.EntryTime,
     ExitPrice  |-> exitPriceOf(position, c),
     ExitTime   |-> c.Timestamp + 1,
     Size       |-> position.Size,
     PnL        |-> R(0)]

closePosition(position, c) ==
    [Side       |-> position.Side,
     EntryPrice |-> position.EntryPrice,
     EntryTime  |-> position.EntryTime,
     ExitPrice  |-> exitPriceOf(position, c),
     ExitTime   |-> c.Timestamp,
     Size       |-> position.Size,
     PnL        |-> R(0)]

\* a variant of the bookkeeping that keeps the raw P&L on either side
settleRaw(trade, position) ==
    [trade EXCEPT !.PnL = RMul(R(trade.ExitPrice - trade.EntryPrice), position.Size)]

\* the caller's bookkeeping after closePosition: the P&L of the trade
settle(trade, position) ==
    LET raw == RMul(R(trade.ExitPrice - trade.EntryPrice), position.Size)
    IN  [trade EXCEPT !.PnL = IF position.Side = "SHORT" THEN RNeg(raw) ELSE raw]

\* a variant of the credit of an exit that pays the entry price back
creditEntryValue(balance, trade, position) ==
    RAdd(balance, RMul(R(trade.EntryPrice), position.Size))

credit(balance, trade, position) ==
    RAdd(balance, RMul(R(trade.ExitPrice), position.Size))

debit(balance, position, c) ==
    RSub(balance, RMul(position.Size, R(c.Close)))

RECURSIVE SumPnL(_, _)
\* the sum of the P&L of the trades of ts that satisfy keep
SumPnL(ts, keep) ==
    IF ts = <<>> THEN R(0)
    ELSE LET t == Head(ts)
         IN  RAdd(IF (keep = "win") = RGt(t.PnL, R(0)) THEN t.PnL ELSE R(0),
                  SumPnL(Tail(ts), keep))

Winners(ts) == {k \in 1..Len(ts) : RGt(ts[k].PnL, R(0))}

MapGet(m, key) == IF key \in DOMAIN m THEN m[key] ELSE R(0)

MapSet(m, key, v) == [k \in DOMAIN m \cup {key} |-> IF k = key THEN v ELSE m[k]]

\* a variant that adds profit_factor whenever a trade counts as losing
computeMetricsByLosers(res, ts, initial, final) ==
    LET winningTrades == Cardinality(Winners(ts))
        losingTrades  == Len(ts) - winningTrades
        totalProfit   == SumPnL(ts, "win")
        totalLoss     == SumPnL(ts, "loss")
        m1 == IF winningTrades > 0
              THEN MapSet(res.Metrics, "avg_win", RDiv(totalProfit, R(winningTrades)))
              ELSE res.Metrics
        m2 == IF losingTrades > 0
              THEN MapSet(m1, "avg_loss", RDiv(totalLoss, R(losingTrades)))
              ELSE m1
        m3 == IF losingTrades > 0
              THEN MapSet(m2, "profit_factor", RDiv(totalProfit, RNeg(totalLoss)))
              ELSE m2
    IN  [res EXCEPT
            !.TotalTrades   = Len(ts),
            !.WinningTrades = winningTrades,
            !.LosingTrades  = losingTrades,
            !.WinRate       = RMul(RDiv(R(winningTrades), R(Len(ts))), R(100)),
            !.TotalPnL      = RSub(final, initial),
            !.TotalReturn   = RMul(RSub(RDiv(final, initial), R(1)), R(100)),
            !.Metrics       = m3]

\* calculateMetrics past its guard for the empty ledger
computeMetrics(res, ts, initial, final) ==
    LET winningTrades == Cardinality(Winners(ts))
        losingTrades  == Len(ts) - winningTrades
        totalProfit   == SumPnL(ts, "win")
        totalLoss     == SumPnL(ts, "loss")
        m1 == IF winningTrades > 0
              THEN MapSet(res.Metrics, "avg_win", RDiv(totalProfit, R(winningTrades)))
              ELSE res.Metrics
        m2 == IF losingTrades > 0
              THEN MapSet(m1, "avg_loss", RDiv(totalLoss, R(losingTrades)))
              ELSE m1
        m3 == IF RNe(MapGet(m2, "avg_loss"), R(0))
              THEN MapSet(m2, "profit_factor", RDiv(totalProfit, RNeg(totalLoss)))
              ELSE m2
    IN  [res EXCEPT
            !.TotalTrades   = Len(ts),
            !.WinningTrades = winningTrades,
            !.LosingTrades  = losingTrades,
            !.WinRate       = RMul(RDiv(R(winningTrades), R(Len(ts))), R(100)),
            !.TotalPnL      = RSub(final, initial),
            !.TotalReturn   = RMul(RSub(RDiv(final, initial), R(1)), R(100)),
            !.Metrics       = m3]

\* a variant of calculateMetrics without the guard for the empty ledger
calculateMetricsNoGuard(res, ts, initial, final) ==
    computeMetrics(res, ts, initial, final)

calculateMetrics(res, ts, initial, final) ==
    IF Len(ts) = 0 THEN [res EXCEPT !.TotalTrades = 0]
    ELSE computeMetrics(res, ts, initial, final)

\* the float divisions calculateMetrics executes on the ledger ts
metricsDivisions(ts) ==
    IF Len(ts) = 0 THEN 0
    ELSE LET w == Cardinality(Winners(ts))
             r == calculateMetrics(NewResult, ts, initialBalance, initialBalance)
         IN  2 + (IF w > 0 THEN 1 ELSE 0) + (IF Len(ts) - w > 0 THEN 1 ELSE 0)
               + (IF "profit_factor" \in DOMAIN r.Metrics THEN 1 ELSE 0)

-----------------------------------------------------------------------------
(* Engine.Run *)

NoRow == <<ADXThreshold, 0, 0>>

NoCall == [fn |-> "none"]

Init ==
    /\ pc = "GetStrategyByName"
    /\ calls = <<>>
    /\ strategy = Nil
    /\ n = 0
    /\ i = 0
    /\ candle = NoCandle
    /\ prevMainCF = 0
    /\ longCond = FALSE
    /\ currentPosition = Nil
    /\ currentBalance = R(0)
    /\ trades = <<>>
    /\ opened = <<>>
    /\ result = Nil
    /\ divisions = 0
    /\ dbResults = <<>>
    /\ raised = NoError
    /\ retResult = Nil
    /\ retErr = NoError
    /\ arg = NoCall
    /\ ret = Nil

\* a variant of the error return that wraps the collaborator's error
FailWrapped(e) ==
    /\ raised' = e
    /\ retResult' = Nil
    /\ retErr' = [msg |-> "backtest failed", cause |-> e]
    /\ pc' = "done"

\* return nil, err
Fail(e) ==
    /\ raised' = e
    /\ retResult' = Nil
    /\ retErr' = e
    /\ pc' = "done"

\* strategy, err := e.db.GetStrategyByName(e.strategyName)
GetStrategyByName ==
    /\ pc = "GetStrategyByName"
    /\ calls' = Append(calls, "GetStrategyByName")
    /\ \/ /\ \E e \in StrategyErrors : Fail(e)
          /\ UNCHANGED strategy
       \/ /\ strategy' = LoadedStrategy
          /\ pc' = "GetCandlesByTimeRange"
          /\ UNCHANGED <<raised, retResult, retErr>>
    /\ UNCHANGED <<n, i, candle, prevMainCF, longCond, currentPosition, currentBalance,
                   trades, opened, result, divisions, dbResults,
                   arg, ret>>

\* candles, err := e.db.GetCandlesByTimeRange(...); on success the indicator
\* arrays are computed and executeBacktest starts: an empty result, no trades,
\* no position, the initial balance, i := 1.  mainCF[0] is the zero value.
GetCandlesByTimeRange ==
    /\ pc = "GetCandlesByTimeRange"
    /\ calls' = Append(calls, "GetCandlesByTimeRange")
    /\ \/ /\ \E e \in CandleErrors : Fail(e)
          /\ UNCHANGED <<n, i, prevMainCF, currentPosition, currentBalance,
                         trades, result>>
       \/ /\ n' \in 0..MaxBars
          /\ i' = 1
          /\ prevMainCF' = 0
          /\ currentPosition' = Nil
          /\ currentBalance' = initialBalance
          /\ trades' = <<>>
          /\ result' = NewResult
          /\ pc' = "loop"
          /\ UNCHANGED <<raised, retResult, retErr>>
    /\ UNCHANGED <<strategy, candle, longCond, opened, divisions, dbResults, arg, ret>>

\* whether checkEntrySignal reads adx, plusDI and minusDI at idx: only inside
\* one of its two crossing branches
readsADX(idx, cf, cfPrev) ==
    idx >= 2 /\ ((cf > 0 /\ cfPrev <= 0) \/ (cf < 0 /\ cfPrev >= 0))

\* The inputs of one iteration.  A value the code does not read at this bar is
\* not enumerated: (adx[i], plusDI[i], minusDI[i]) are read on a crossing only,
\* atr[i] and candles[i] of a flat bar on a signal only.  Of a candle that opens
\* a position the loop reads Close and Timestamp; Low and High are read again
\* only if it is the final candle (by the forced closure), so before the final
\* bar one candle per Close stands for all candles with that Close.
ADXInputs(idx, cf, cfPrev) ==
    IF readsADX(idx, cf, cfPrev)
    THEN ADXValues \X DIValues \X DIValues
    ELSE {NoRow}

ATRInputs(signal) == IF signal # "" THEN ATRValues ELSE {0}

EntryCandles(idx, len, signal) ==
    IF signal = "" THEN {NoCandle}
    ELSE IF idx = len - 1 THEN Candles(idx)
    ELSE {Bar(idx, cl, cl, cl) : cl \in Prices}

\* the conditions of a LONG entry on the indicator arrays at one index: MainCF
\* crosses zero upward, ADX is above the threshold and +DI is above -DI
LongConditions(cf, cfPrev, ind, strat) ==
    /\ cfPrev <= 0
    /\ cf > 0
    /\ ind[1] > strat.Config.ADXThreshold
    /\ ind[2] > ind[3]

\* the entry branch of one iteration of the trading loop, taken when flat
EntryBranch(flat) ==
    /\ pc = "loop"
    /\ i < n
    /\ flat
    /\ \E cf \in CFInputs(i) :
       \E ind \in ADXInputs(i, cf, prevMainCF) :
          LET signal == checkEntrySignal(i, cf, prevMainCF, ind[1], ind[2],
                                         ind[3], strategy)
          IN  \E atr \in ATRInputs(signal), c \in EntryCandles(i, n, signal) :
              LET position == openPosition(signal, c, atr, currentBalance)
              IN  /\ candle' = c
                  /\ prevMainCF' = cf
                  /\ longCond' = LongConditions(cf, prevMainCF, ind, strategy)
                  /\ IF signal # ""
                     THEN /\ currentPosition' = position
                          /\ currentBalance' = debit(currentBalance, position, c)
                          /\ opened' = Append(opened, position)
                     ELSE UNCHANGED <<currentPosition, currentBalance, opened>>
    /\ i' = i + 1
    /\ UNCHANGED <<pc, calls, strategy, n, trades, result, divisions,
                   dbResults, raised, retResult, retErr, arg, ret>>

\* a variant of the iteration that checks for an entry with a position open
EntryStepAlways == EntryBranch(TRUE)

\* one iteration of the trading loop with currentPosition == nil
EntryStep == EntryBranch(currentPosition = Nil)

\* one iteration of the trading loop with a position open; the code reads no
\* indicator at this index (mainCF[i] is read by the next iteration); the row
\* of the arrays is enumerated as the entry rule would have read it
ExitStep ==
    /\ pc = "loop"
    /\ i < n
    /\ currentPosition # Nil
    /\ \E c \in Candles(i), cf \in CFInputs(i) :
       \E ind \in ADXInputs(i, cf, prevMainCF) :
          /\ candle' = IF checkExitSignal(currentPosition, c) \/ i = n - 1
                       THEN c ELSE NoCandle
          /\ prevMainCF' = cf
          /\ longCond' = LongConditions(cf, prevMainCF, ind, strategy)
          /\ IF checkExitSignal(currentPosition, c)
             THEN LET trade == closePosition(currentPosition, c)
                  IN  /\ currentBalance' = credit(currentBalance, trade, currentPosition)
                      /\ trades' = Append(trades, settle(trade, currentPosition))
                      /\ currentPosition' = Nil
             ELSE UNCHANGED <<currentPosition, currentBalance, trades>>
    /\ i' = i + 1
    /\ UNCHANGED <<pc, calls, strategy, n, opened, result, divisions,
                   dbResults, raised, retResult, retErr, arg, ret>>

\* a variant of the end of the loop that leaves an open position open
EndOfRangeNoClose ==
    /\ pc = "loop"
    /\ i >= n
    /\ pc' = "calculateMetrics"
    /\ UNCHANGED <<calls, strategy, n, i, candle, prevMainCF, longCond,
                   currentPosition, currentBalance, trades, opened, result,
                   divisions, dbResults, raised, retResult, retErr, arg, ret>>

\* a variant of the end of the loop that may leave the loop at any index
EndOfRangeAnyIndex ==
    /\ pc = "loop"
    /\ i <= n
    /\ IF currentPosition # Nil
       THEN LET trade == closePosition(currentPosition, candle)
            IN  /\ currentBalance' = credit(currentBalance, trade, currentPosition)
                /\ trades' = Append(trades, settle(trade, currentPosition))
       ELSE UNCHANGED <<currentBalance, trades>>
    /\ pc' = "calculateMetrics"
    /\ UNCHANGED <<calls, strategy, n, i, candle, prevMainCF, longCond, currentPosition,
                   opened, result, divisions, dbResults, raised,
                   retResult, retErr, arg, ret>>

\* after the loop: close any open position against candles[len(candles)-1],
\* which is the candle of the latest iteration
EndOfRange ==
    /\ pc = "loop"
    /\ i >= n
    /\ IF currentPosition # Nil
       THEN LET trade == closePosition(currentPosition, candle)
            IN  /\ currentBalance' = credit(currentBalance, trade, currentPosition)
                /\ trades' = Append(trades, settle(trade, currentPosition))
       ELSE UNCHANGED <<currentBalance, trades>>
    /\ pc' = "calculateMetrics"
    /\ UNCHANGED <<calls, strategy, n, i, candle, prevMainCF, longCond, currentPosition,
                   opened, result, divisions, dbResults, raised,
                   retResult, retErr, arg, ret>>

\* e.calculateMetrics(result, trades, initialBalance, currentBalance); return
\* result; then Run fills in the identifiers of the run.  The arrays and the
\* loop's view of them go out of scope when executeBacktest returns; the ledger
\* and the balance are kept as the history of the run.
Metrics ==
    /\ pc = "calculateMetrics"
    /\ result' = [calculateMetrics(result, trades, initialBalance, currentBalance)
                    EXCEPT !.InstrumentID = 7, !.StrategyID = strategy.ID]
    /\ divisions' = metricsDivisions(trades)
    /\ candle' = NoCandle
    /\ prevMainCF' = 0
    /\ longCond' = FALSE
    /\ pc' = "SaveBacktestResult"
    /\ UNCHANGED <<calls, strategy, n, i, currentPosition, currentBalance,
                   trades, opened, dbResults, raised, retResult,
                   retErr, arg, ret>>

\* e.db.SaveBacktestResult(result): one row of backtest_results, or an error
SaveBacktestResult ==
    /\ pc = "SaveBacktestResult"
    /\ calls' = Append(calls, "SaveBacktestResult")
    /\ \/ /\ \E e \in SaveErrors : Fail(e)
          /\ UNCHANGED dbResults
       \/ /\ dbResults' = Append(dbResults, result)
          /\ retResult' = result
          /\ retErr' = NoError
          /\ pc' = "done"
          /\ UNCHANGED raised
    /\ UNCHANGED <<strategy, n, i, candle, prevMainCF, longCond, currentPosition,
                   currentBalance, trades, opened, result, divisions,
                   arg, ret>>

Next ==
    \/ GetStrategyByName
    \/ GetCandlesByTimeRange
    \/ EntryStep
    \/ ExitStep
    \/ EndOfRange
    \/ Metrics
    \/ SaveBacktestResult

Spec == Init /\ [][Next]_vars

-----------------------------------------------------------------------------
(* Properties of Engine.Run *)

LastTrade == trades[Len(trades)]

\* the position the latest trade was converted from
LastClosed == opened[Len(trades)]

\* C1: at any moment of the loop at most one Position is open, and a Position
\* is opened only while no Position is open: the positions opened so far are
\* the closed ones plus at most one, which is then currentPosition
C1_AtMostOnePosition ==
    /\ [](pc = "loop" =>
            /\ Len(opened) - Len(trades) \in {0, 1}
            /\ (currentPosition # Nil) <=> (Len(opened) = Len(trades) + 1)
            /\ currentPosition # Nil => currentPosition = opened[Len(opened)])
    /\ [][Len(opened') > Len(opened) => currentPosition = Nil]_vars

\* a second position is open after the first one was closed
C1_Witness ==
    pc = "loop" /\ Len(trades) >= 1 /\ currentPosition # Nil

\* C2: every Trade in the ledger has an exit time strictly after its entry time
C2_ExitAfterEntry ==
    \A k \in 1..Len(trades) : trades[k].ExitTime > trades[k].EntryTime

\* C3, as stated: whenever the LONG conditions hold on the indicator arrays at
\* the index the loop has just processed, a LONG position entered at that
\* candle's timestamp is open
C3_LongOpensOnConditions ==
    [][(pc = "loop" /\ i' = i + 1 /\ longCond') =>
            /\ currentPosition' # Nil
            /\ currentPosition'.Side = "LONG"
            /\ currentPosition'.EntryTime = i]_vars

\* C3, amended: whenever the LONG conditions hold at index i and no position is
\* open when the loop processes candle i, a LONG position entered at that
\* candle's timestamp is opened
C3_LongOpensWhenFlat ==
    [][(pc = "loop" /\ i' = i + 1 /\ longCond' /\ currentPosition = Nil) =>
            /\ currentPosition' # Nil
            /\ currentPosition'.Side = "LONG"
            /\ currentPosition'.EntryTime = i
            /\ currentPosition' = opened'[Len(opened')]
            /\ Len(opened') = Len(opened) + 1]_vars

\* the LONG conditions held at the latest index, with MainCF[i-1] = 0 or < 0,
\* and the LONG position was opened there
C3_Witness ==
    /\ pc = "loop"
    /\ longCond
    /\ currentPosition # Nil
    /\ currentPosition.Side = "LONG"
    /\ currentPosition.EntryTime = i - 1

\* C5: every Position opened is converted into exactly one Trade, the k-th
\* position into the k-th trade; inside the loop only the open position is
\* still unconverted, and once the loop and the forced closure are over the
\* ledger has as many trades as positions were opened
C5_EveryPositionOneTrade ==
    /\ Len(trades) = Len(opened) - (IF pc = "loop" /\ currentPosition # Nil THEN 1 ELSE 0)
    /\ \A k \in 1..Len(trades) :
          /\ trades[k].Side = opened[k].Side
          /\ trades[k].EntryTime = opened[k].EntryTime
          /\ trades[k].EntryPrice = opened[k].EntryPrice
          /\ trades[k].Size = opened[k].Size

\* a run that closed one position inside the loop and another by the forced
\* closure at the end of the series
C5_Witness ==
    /\ pc = "calculateMetrics"
    /\ currentPosition # Nil
    /\ Len(opened) = 2
    /\ Len(trades) = 2

\* the trade produced against the candle of the latest iteration
ClosedOnCandle ==
    /\ pc \in {"loop", "calculateMetrics"}
    /\ Len(trades) >= 1
    /\ LastTrade.ExitTime = candle.Timestamp

StopReached(p, c) ==
    IF p.Side = "LONG" THEN c.Low <= p.StopLoss ELSE c.High >= p.StopLoss

TargetReached(p, c) ==
    IF p.Side = "LONG" THEN c.High >= p.TakeProfit ELSE c.Low <= p.TakeProfit

\* C6: the exit price of a trade is the stop-loss when the candle reached the
\* stop-loss, else the take-profit when it reached the take-profit; it is the
\* candle's close only when neither was reached, which happens only on the
\* forced closure after the loop
C6_ExitPriceIsLevel ==
    ClosedOnCandle =>
        /\ StopReached(LastClosed, candle) => LastTrade.ExitPrice = LastClosed.StopLoss
        /\ (~StopReached(LastClosed, candle) /\ TargetReached(LastClosed, candle))
              => LastTrade.ExitPrice = LastClosed.TakeProfit
        /\ (~StopReached(LastClosed, candle) /\ ~TargetReached(LastClosed, candle))
              => /\ LastTrade.ExitPrice = candle.Close
                 /\ pc = "calculateMetrics"
                 /\ currentPosition # Nil

\* a candle inside the loop reached both levels of a position whose levels
\* differ, and the trade exits at the stop-loss
C6_Witness ==
    /\ pc = "loop"
    /\ ClosedOnCandle
    /\ StopReached(LastClosed, candle)
    /\ TargetReached(LastClosed, candle)
    /\ LastClosed.StopLoss # LastClosed.TakeProfit
    /\ LastTrade.ExitPrice = LastClosed.StopLoss

\* C7: a Run in which a collaborator failed returns a nil result and that
\* collaborator's error unchanged and has persisted nothing; after a failed
\* strategy lookup no other collaborator call was made, after a failed candle
\* fetch no persistence call
C7_FailureIsAtomic ==
    (pc = "done" /\ raised # NoError) =>
        /\ retResult = Nil
        /\ retErr = raised
        /\ dbResults = <<>>
        /\ raised \in StrategyErrors => calls = <<"GetStrategyByName">>
        /\ raised \in CandleErrors =>
              calls = <<"GetStrategyByName", "GetCandlesByTimeRange">>

\* the persistence step failed after a simulation that produced trades
C7_Witness ==
    /\ pc = "done"
    /\ raised \in SaveErrors
    /\ Len(trades) >= 1
    /\ result # Nil

\* C8: the BacktestResult of a successful Run contains the full trade list,
\* whose length is totalTrades, and is the value handed to persistence
C8_ResultCarriesTrades ==
    (pc = "done" /\ retErr = NoError) =>
        /\ "Trades" \in DOMAIN retResult
        /\ retResult.Trades = trades
        /\ retResult.TotalTrades = Len(trades)
        /\ dbResults = <<retResult>>

\* C9: over an empty ledger calculateMetrics leaves every metric at zero, adds
\* no profit_factor, avg_win or avg_loss key and executes no division
C9_EmptyLedgerAllZero ==
    (pc \in {"SaveBacktestResult", "done"} /\ result # Nil /\ trades = <<>>) =>
        /\ result.TotalTrades = 0
        /\ result.WinningTrades = 0
        /\ result.LosingTrades = 0
        /\ result.WinRate = R(0)
        /\ result.TotalPnL = R(0)
        /\ result.TotalReturn = R(0)
        /\ DOMAIN result.Metrics = {}
        /\ divisions = 0

\* a run over a series long enough to trade that made no trade
C9_Witness ==
    /\ pc = "done"
    /\ retErr = NoError
    /\ n = MaxBars
    /\ trades = <<>>
    /\ retResult.TotalTrades = 0

-----------------------------------------------------------------------------
(* internal/strategy/cf_calculator.go *)

MaxKlines == 2
MaxWindowBound == 3
MaxCFPrice == 2
MaxCFLen == 3

\* candles[a:b] of Go, for 0 <= a <= b <= len(candles)
Slice(candles, a, b) == SubSeq(candles, a + 1, b)

RMax(x, y) == IF IsNaN(x) \/ IsNaN(y) THEN [n |-> 0, d |-> 0]
              ELSE IF RGt(x, y) THEN x ELSE y

\* int(x) of a finite float64: truncation toward zero
Trunc(x) == IF x.n >= 0 THEN x.n \div x.d ELSE -((-x.n) \div x.d)

\* int(x) of a non-finite float64 is implementation-dependent: any of these
ImplInts == {-2147483647, 0, 2147483647}

RECURSIVE findMaxHigh(_)
findMaxHigh(candles) ==
    IF Len(candles) = 0 THEN 0
    ELSE IF Len(candles) = 1 THEN candles[1].High
    ELSE LET m == findMaxHigh(SubSeq(candles, 1, Len(candles) - 1))
             h == candles[Len(candles)].High
         IN  IF h > m THEN h ELSE m

RECURSIVE findMinLow(_)
findMinLow(candles) ==
    IF Len(candles) = 0 THEN 0
    ELSE IF Len(candles) = 1 THEN candles[1].Low
    ELSE LET m == findMinLow(SubSeq(candles, 1, Len(candles) - 1))
             l == candles[Len(candles)].Low
         IN  IF l < m THEN l ELSE m

clamp(value, min, max) ==
    IF value < min THEN min
    ELSE IF value > max THEN max
    ELSE value

\* the window size without the target amplitude in the numerator
calculateNewTotalKlinesUnscaled(config, candles, t, impl) ==
    LET totalKlines == config.TotalKlines
        window      == Slice(candles, t - totalKlines + 1, t + 1)
        highWindow  == findMaxHigh(window)
        lowWindow   == findMinLow(window)
        aCurrent    == RDiv(R(highWindow - lowWindow), R(lowWindow))
        aSafe       == RMax(aCurrent, config.Epsilon)
        newTotalKlinesFloat == RDiv(R(totalKlines), aSafe)
        newTotalKlines ==
            IF IsFinite(newTotalKlinesFloat) THEN Trunc(newTotalKlinesFloat)
            ELSE impl
    IN  IF lowWindow = 0 THEN totalKlines
        ELSE clamp(newTotalKlines, config.NewTotalKlinesMin,
                   config.NewTotalKlinesMax)

\* impl is what int() yields should newTotalKlinesFloat not be finite
calculateNewTotalKlines(config, candles, t, impl) ==
    LET totalKlines == config.TotalKlines
        window      == Slice(candles, t - totalKlines + 1, t + 1)
        highWindow  == findMaxHigh(window)
        lowWindow   == findMinLow(window)
        aCurrent    == RDiv(R(highWindow - lowWindow), R(lowWindow))
        aSafe       == RMax(aCurrent, config.Epsilon)
        newTotalKlinesFloat ==
            RDiv(RMul(R(totalKlines), config.CustomAmplitude), aSafe)
        newTotalKlines ==
            IF IsFinite(newTotalKlinesFloat) THEN Trunc(newTotalKlinesFloat)
            ELSE impl
    IN  IF lowWindow = 0 THEN totalKlines
        ELSE clamp(newTotalKlines, config.NewTotalKlinesMin,
                   config.NewTotalKlinesMax)

calculateCF(window, prevCF) ==
    IF Len(window) < 4 THEN prevCF
    ELSE LET half == Len(window) \div 2
             segment1 == Slice(window, 0, half)
             segment2 == Slice(window, half, Len(window))
             h1 == findMaxHigh(segment1)
             l1 == findMinLow(segment1)
             h2 == findMaxHigh(segment2)
             l2 == findMinLow(segment2)
             hCF == IF h1 # 0 THEN RMul(RDiv(R(h2 - h1), R(h1)), R(100)) ELSE R(0)
             lCF == IF l1 # 0 THEN RMul(RDiv(R(l2 - l1), R(l1)), R(100)) ELSE R(0)
         IN  RDiv(RAdd(hCF, lCF), R(2))

Panic == [panic |-> "slice bounds out of range"]

\* the pair (mainCF, newTotalKlines), or the panic of the window slice
CalculateMainCF(config, candles, t, prevCF, impl) ==
    IF t < config.TotalKlines
    THEN [mainCF |-> R(0), newTotalKlines |-> config.TotalKlines]
    ELSE LET newTotalKlines == calculateNewTotalKlines(config, candles, t, impl)
         IN  IF t - newTotalKlines + 1 < 0 \/ t - newTotalKlines + 1 > t + 1
             THEN Panic
             ELSE [mainCF |-> calculateCF(Slice(candles, t - newTotalKlines + 1, t + 1), prevCF),
                   newTotalKlines |-> newTotalKlines]

-----------------------------------------------------------------------------
(* SpecCF: the window calculator on bounded inputs *)

CFPrices == 0..MaxCFPrice

CFCandles == {c \in [High : CFPrices, Low : CFPrices] : c.Low <= c.High}

CFSeries == UNION {[1..len -> CFCandles] : len \in 1..MaxCFLen}

\* configurations with a well-formed bound interval
Configs ==
    {c \in [TotalKlines : 1..MaxKlines,
            CustomAmplitude : {Rat(1, 2), R(2)},
            Epsilon : {R(0), Rat(1, 10)},
            NewTotalKlinesMin : 1..MaxWindowBound,
            NewTotalKlinesMax : 1..MaxWindowBound] :
        c.NewTotalKlinesMin <= c.NewTotalKlinesMax}

\* calls as calculateCFIndicators and CalculateMainCF make them: t indexes a
\* candle of the series and, for calculateNewTotalKlines, t >= TotalKlines
CFCalls ==
    {a \in [fn : {"calculateNewTotalKlines", "CalculateMainCF"},
            config : Configs, candles : CFSeries, t : 0..(MaxCFLen - 1)] :
        /\ a.t < Len(a.candles)
        /\ a.fn = "calculateNewTotalKlines" => a.t >= a.config.TotalKlines}

RunIdle ==
    /\ calls = <<>> /\ strategy = Nil /\ n = 0 /\ i = 0 /\ candle = NoCandle
    /\ prevMainCF = 0 /\ longCond = FALSE /\ currentPosition = Nil
    /\ currentBalance = R(0) /\ trades = <<>> /\ opened = <<>> /\ result = Nil
    /\ divisions = 0 /\ dbResults = <<>> /\ raised = NoError
    /\ retResult = Nil /\ retErr = NoError

InitCF ==
    /\ pc = "call"
    /\ arg \in CFCalls
    /\ ret = Nil
    /\ RunIdle

CallCalculateNewTotalKlines ==
    /\ pc = "call"
    /\ arg.fn = "calculateNewTotalKlines"
    /\ \E impl \in ImplInts :
          ret' = calculateNewTotalKlines(arg.config, arg.candles, arg.t, impl)
    /\ pc' = "return"
    /\ UNCHANGED <<arg, calls, strategy, n, i, candle, prevMainCF, longCond,
                   currentPosition, currentBalance, trades, opened, result,
                   divisions, dbResults, raised, retResult, retErr>>

CallCalculateMainCF ==
    /\ pc = "call"
    /\ arg.fn = "CalculateMainCF"
    /\ \E impl \in ImplInts :
          ret' = CalculateMainCF(arg.config, arg.candles, arg.t, R(0), impl)
    /\ pc' = "return"
    /\ UNCHANGED <<arg, calls, strategy, n, i, candle, prevMainCF, longCond,
                   currentPosition, currentBalance, trades, opened, result,
                   divisions, dbResults, raised, retResult, retErr>>

NextCF == CallCalculateNewTotalKlines \/ CallCalculateMainCF

SpecCF == InitCF /\ [][NextCF]_vars

\* the call ended in the panic of a slice expression
Panicked == arg.fn = "CalculateMainCF" /\ "panic" \in DOMAIN ret

\* the window size a call returned
ReturnedWindow ==
    IF arg.fn = "calculateNewTotalKlines" THEN ret ELSE ret.newTotalKlines

\* C4: for every bar t >= totalKlines and every configuration the window size
\* returned by calculateNewTotalKlines, and by CalculateMainCF as
\* newTotalKlines, lies within [NewTotalKlinesMin, NewTotalKlinesMax]
C4_WindowWithinBounds ==
    (pc = "return" /\ arg.t >= arg.config.TotalKlines /\ ~Panicked) =>
        /\ ReturnedWindow >= arg.config.NewTotalKlinesMin
        /\ ReturnedWindow <= arg.config.NewTotalKlinesMax

\* C14: for every bar t >= totalKlines and every configuration the windows
\* CalculateMainCF extracts lie inside the series, so that the call returns a
\* value instead of failing on an out-of-range slice
C14_WindowsInsideSeries ==
    (pc = "return" /\ arg.fn = "CalculateMainCF"
        /\ arg.t >= arg.config.TotalKlines) =>
        /\ "panic" \notin DOMAIN ret
        /\ arg.t - ret.newTotalKlines + 1 >= 0

-----------------------------------------------------------------------------
(* ATRCalculator, package strategy in internal/uploader/csv.go *)

MaxATRLen == 3
MaxATRPrice == 6

\* The EMA of Calculate is where float64 rounding decides a claim, so its
\* arithmetic is rounded: a binary floating-point format with round-to-nearest,
\* ties to even, and a significand of MantissaBits bits in place of the 53 of
\* float64 (no overflow or underflow in the range of the inputs).
MantissaBits == 9

RECURSIVE Pow2(_)
Pow2(k) == IF k = 0 THEN 1 ELSE 2 * Pow2(k - 1)

RECURSIVE RoundScaled(_, _, _, _)
\* num/den > 0 rounded to MantissaBits significant bits; mul / div is the power
\* of two that scales it into [2^(MantissaBits-1), 2^MantissaBits)
RoundScaled(num, den, mul, div) ==
    IF num * mul < Pow2(MantissaBits - 1) * den * div
    THEN RoundScaled(num, den, mul * 2, div)
    ELSE IF num * mul >= Pow2(MantissaBits) * den * div
    THEN RoundScaled(num, den, mul, div * 2)
    ELSE LET m    == (num * mul) \div (den * div)
             rest == num * mul - m * den * div
             up   == 2 * rest > den * div \/ (2 * rest = den * div /\ m % 2 = 1)
         IN  Rat((IF up THEN m + 1 ELSE m) * div, mul)

\* the float nearest to x
Fl(x) ==
    IF x.d = 0 \/ x.n = 0 THEN x
    ELSE IF x.n < 0 THEN RNeg(RoundScaled(-x.n, x.d, 1, 1))
    ELSE RoundScaled(x.n, x.d, 1, 1)

FAdd(x, y) == Fl(RAdd(x, y))

FSub(x, y) == Fl(RSub(x, y))

FMul(x, y) == Fl(RMul(x, y))

FDiv(x, y) == Fl(RDiv(x, y))

\* x*y + z may be compiled into one fused operation, rounded once, or not:
\* which product of alpha*tr[i] + (1-alpha)*atr[i-1] is fused, if any
Fusings == {"none", "first", "second"}

RAbs(x) == [n |-> Abs(x.n), d |-> x.d]

\* tr[k] of Calculate, 0-based k
TrueRange(candles, k) ==
    IF k = 0 THEN R(candles[1].High - candles[1].Low)
    ELSE LET highLow       == R(candles[k + 1].High - candles[k + 1].Low)
             highPrevClose == RAbs(R(candles[k + 1].High - candles[k].Close))
             lowPrevClose  == RAbs(R(candles[k + 1].Low - candles[k].Close))
         IN  RMax(highLow, RMax(highPrevClose, lowPrevClose))

RECURSIVE EMA(_, _, _, _, _)
\* atr[k] of Calculate from the seed atr[0], 0-based k
EMA(candles, alpha, seed, k, fuse) ==
    IF k = 0 THEN seed
    ELSE LET tr   == TrueRange(candles, k)
             beta == FSub(R(1), alpha)
             prev == EMA(candles, alpha, seed, k - 1, fuse)
         IN  IF fuse = "first"
             THEN Fl(RAdd(RMul(alpha, tr), FMul(beta, prev)))
             ELSE IF fuse = "second"
             THEN Fl(RAdd(FMul(alpha, tr), RMul(beta, prev)))
             ELSE FAdd(FMul(alpha, tr), FMul(beta, prev))

Zeros(len) == [k \in 1..len |-> R(0)]

\* a variant of Calculate whose recursion starts from 0 instead of tr[0]
CalculateSeedZero(period, candles, fuse) ==
    IF Len(candles) < 2 THEN Zeros(Len(candles))
    ELSE LET alpha == FDiv(R(2), R(period + 1))
         IN  [k \in 1..Len(candles) |-> EMA(candles, alpha, R(0), k - 1, fuse)]

\* a variant of Calculate with the smoothing factor 2/period
CalculateWideAlpha(period, candles, fuse) ==
    IF Len(candles) < 2 THEN Zeros(Len(candles))
    ELSE LET alpha == FDiv(R(2), R(period))
         IN  [k \in 1..Len(candles) |->
                 EMA(candles, alpha, TrueRange(candles, 0), k - 1, fuse)]

\* a variant of Calculate whose recursion starts from the true range of the
\* last candle of the series
CalculateSeedLast(period, candles, fuse) ==
    IF Len(candles) < 2 THEN Zeros(Len(candles))
    ELSE LET alpha == FDiv(R(2), R(period + 1))
         IN  [k \in 1..Len(candles) |->
                 EMA(candles, alpha, TrueRange(candles, Len(candles) - 1),
                     k - 1, fuse)]

\* ATRCalculator.Calculate for a calculator of the given period
Calculate(period, candles, fuse) ==
    IF Len(candles) < 2 THEN Zeros(Len(candles))
    ELSE LET alpha == FDiv(R(2), R(period + 1))
         IN  [k \in 1..Len(candles) |->
                 EMA(candles, alpha, TrueRange(candles, 0), k - 1, fuse)]

-----------------------------------------------------------------------------
(* SpecATR: the ATR calculator on bounded inputs *)

\* price levels of the series: the true ranges they give are 0, 1,
\* MaxATRPrice - 2 and MaxATRPrice - 1
ATRPrices == {1, 2, MaxATRPrice}

ATRCandles ==
    {c \in [High : ATRPrices, Low : ATRPrices, Close : ATRPrices] :
        c.Low <= c.Close /\ c.Close <= c.High}

ATRSeries == UNION {[1..len -> ATRCandles] : len \in 0..MaxATRLen}

\* NewATRCalculator(14) is the calculator the engine builds
Periods == {1, 14}

InitATR ==
    /\ pc = "call"
    /\ arg \in [fn : {"Calculate"}, period : Periods, candles : ATRSeries]
    /\ ret = Nil
    /\ RunIdle

CallCalculate ==
    /\ pc = "call"
    /\ arg.fn = "Calculate"
    /\ \E fuse \in Fusings : ret' = Calculate(arg.period, arg.candles, fuse)
    /\ pc' = "return"
    /\ UNCHANGED <<arg, calls, strategy, n, i, candle, prevMainCF, longCond,
                   currentPosition, currentBalance, trades, opened, result,
                   divisions, dbResults, raised, retResult, retErr>>

NextATR == CallCalculate

SpecATR == InitATR /\ [][NextATR]_vars

\* C10, as stated: for a series of one candle or more the ATR series has the
\* length of the input and ATR[0] == high[0] - low[0]
C10_FirstIsRange ==
    (pc = "return" /\ Len(arg.candles) >= 1) =>
        /\ Len(ret) = Len(arg.candles)
        /\ ret[1] = R(arg.candles[1].High - arg.candles[1].Low)

\* C10, amended: the ATR series has the length of the input; for a series of
\* two candles or more ATR[0] == high[0] - low[0], and for a series of exactly
\* one candle the ATR series is the single value 0
C10_FirstIsRangeFromTwo ==
    pc = "return" =>
        /\ Len(ret) = Len(arg.candles)
        /\ Len(arg.candles) >= 2 =>
              ret[1] = R(arg.candles[1].High - arg.candles[1].Low)
        /\ Len(arg.candles) = 1 => ret = <<R(0)>>

\* Calculate returned for a series of two candles or more whose first candle
\* has a range
C10_Witness ==
    /\ pc = "return"
    /\ Len(arg.candles) >= 2
    /\ arg.candles[1].High > arg.candles[1].Low
    /\ ret[1] = R(arg.candles[1].High - arg.candles[1].Low)
    /\ ret[2] # ret[1]

RECURSIVE MinTR(_, _)
\* min(tr[0..k])
MinTR(candles, k) ==
    IF k = 0 THEN TrueRange(candles, 0)
    ELSE LET m == MinTR(candles, k - 1)
             t == TrueRange(candles, k)
         IN  IF RLt(t, m) THEN t ELSE m

RECURSIVE MaxTR(_, _)
\* max(tr[0..k])
MaxTR(candles, k) ==
    IF k = 0 THEN TrueRange(candles, 0)
    ELSE LET m == MaxTR(candles, k - 1)
             t == TrueRange(candles, k)
         IN  IF RGt(t, m) THEN t ELSE m

\* C11, as stated: every ATR[i] the recurrence computes lies between
\* min(TR[0..i]) and max(TR[0..i]) inclusive
C11_WithinTrueRange ==
    (pc = "return" /\ Len(arg.candles) >= 2) =>
        \A k \in 0..(Len(arg.candles) - 1) :
            /\ RLe(MinTR(arg.candles, k), ret[k + 1])
            /\ RLe(ret[k + 1], MaxTR(arg.candles, k))

\* the relative margin (period+1) * 2^(1 - MantissaBits) that the rounding of
\* the recurrence stays within
Margin == Rat(arg.period + 1, Pow2(MantissaBits - 1))

\* C11, amended: every ATR[i] the recurrence computes lies between
\* min(TR[0..i]) and max(TR[0..i]) up to rounding, that is within the relative
\* margin of that interval
C11_WithinTrueRangeRounded ==
    (pc = "return" /\ Len(arg.candles) >= 2) =>
        \A k \in 0..(Len(arg.candles) - 1) :
            /\ RLe(RMul(MinTR(arg.candles, k), RSub(R(1), Margin)), ret[k + 1])
            /\ RLe(ret[k + 1], RMul(MaxTR(arg.candles, k), RAdd(R(1), Margin)))

\* the recurrence ran over a true-range series that rises and falls, and the
\* ATR lies strictly inside its range
C11_Witness ==
    /\ pc = "return"
    /\ Len(arg.candles) = 3
    /\ arg.period = 14
    /\ RLt(TrueRange(arg.candles, 0), TrueRange(arg.candles, 1))
    /\ RLt(TrueRange(arg.candles, 2), TrueRange(arg.candles, 0))
    /\ RLt(MinTR(arg.candles, 2), ret[3])
    /\ RLt(ret[3], MaxTR(arg.candles, 2))

-----------------------------------------------------------------------------
(* Claims on Run settled with the calculators in view *)

\* GetCandlesByTimeRange returned a series without error
Fetched == result # Nil

\* C15: a Run whose fetched candle range is empty ends with an error, returns
\* no BacktestResult and persists none
C15_EmptyRangeFails ==
    (pc = "done" /\ Fetched /\ n = 0) =>
        /\ retErr # NoError
        /\ retResult = Nil
        /\ dbResults = <<>>

\* the calls of SaveBacktestResult made so far
SaveCalls == {k \in 1..Len(calls) : calls[k] = "SaveBacktestResult"}

\* C17: the result is handed to persistence at most once, never while the
\* loop, the forced closure or the metrics are still to run, and only once
\* every index has been processed, every position closed and the metrics
\* computed
C17_PersistOnceAfterLoop ==
    /\ Cardinality(SaveCalls) <= 1
    /\ Len(dbResults) <= 1
    /\ pc \in {"loop", "calculateMetrics", "SaveBacktestResult"} =>
           SaveCalls = {} /\ dbResults = <<>>
    /\ SaveCalls # {} =>
           /\ pc = "done"
           /\ i >= n
           /\ Len(trades) = Len(opened)
           /\ result.TotalTrades = Len(trades)

\* a run over several candles saved its result after a forced closure
C17_Witness ==
    /\ pc = "done"
    /\ SaveCalls # {}
    /\ dbResults = <<result>>
    /\ n >= 4
    /\ i = n
    /\ Len(trades) >= 1
    /\ LastTrade.ExitTime = n - 1
    /\ LastTrade.EntryTime < n - 1

-----------------------------------------------------------------------------
(* ADXCalculator, package strategy in internal/uploader/csv.go *)

\* plusDM[k] and minusDM[k] of Calculate, 0-based k
PlusDM(candles, k) ==
    IF k = 0 THEN R(0)
    ELSE LET highDiff == candles[k + 1].High - candles[k].High
             lowDiff  == candles[k].Low - candles[k + 1].Low
         IN  IF highDiff > lowDiff /\ highDiff > 0 THEN R(highDiff) ELSE R(0)

MinusDM(candles, k) ==
    IF k = 0 THEN R(0)
    ELSE LET highDiff == candles[k + 1].High - candles[k].High
             lowDiff  == candles[k].Low - candles[k + 1].Low
         IN  IF lowDiff > highDiff /\ lowDiff > 0 THEN R(lowDiff) ELSE R(0)

RECURSIVE Smooth(_, _, _, _)
\* s[0..k] of the recurrence s[0] = xs[0], s[i] = alpha*xs[i] + (1-alpha)*s[i-1],
\* for the 1-based sequence xs and 0-based k
Smooth(xs, alpha, k, fuse) ==
    IF k = 0 THEN <<xs[1]>>
    ELSE LET beta == FSub(R(1), alpha)
             head == Smooth(xs, alpha, k - 1, fuse)
             prev == head[k]
         IN  Append(head,
                 IF fuse = "first"
                 THEN Fl(RAdd(RMul(alpha, xs[k + 1]), FMul(beta, prev)))
                 ELSE IF fuse = "second"
                 THEN Fl(RAdd(FMul(alpha, xs[k + 1]), RMul(beta, prev)))
                 ELSE FAdd(FMul(alpha, xs[k + 1]), FMul(beta, prev)))

\* a variant of dx[i] without the absolute value
DXSigned(plus, minus) ==
    LET diSum == FAdd(plus, minus)
    IN  IF RNe(diSum, R(0))
        THEN FMul(FDiv(FSub(plus, minus), diSum), R(100))
        ELSE R(0)

\* dx[i] from plusDI[i] and minusDI[i]
DX(plus, minus) ==
    LET diSum == FAdd(plus, minus)
    IN  IF RNe(diSum, R(0))
        THEN FMul(FDiv(RAbs(FSub(plus, minus)), diSum), R(100))
        ELSE R(0)

ZeroSeries(len) ==
    [adx |-> Zeros(len), plusDI |-> Zeros(len), minusDI |-> Zeros(len)]

\* ADXCalculator.Calculate for a calculator of the given period: the three
\* series it returns
ADXCalculate(period, candles, fuse) ==
    LET len == Len(candles)
    IN  IF len < 2 THEN ZeroSeries(len)
        ELSE
        LET alpha   == FDiv(R(2), R(period + 1))
            idx     == 1..len
            plusDM  == [k \in idx |-> PlusDM(candles, k - 1)]
            minusDM == [k \in idx |-> MinusDM(candles, k - 1)]
            tr      == [k \in idx |-> TrueRange(candles, k - 1)]
            smoothedPlusDM  == Smooth(plusDM, alpha, len - 1, fuse)
            smoothedMinusDM == Smooth(minusDM, alpha, len - 1, fuse)
            smoothedTR      == Smooth(tr, alpha, len - 1, fuse)
            plusDI  == [k \in idx |->
                          IF RNe(smoothedTR[k], R(0))
                          THEN FMul(FDiv(smoothedPlusDM[k], smoothedTR[k]), R(100))
                          ELSE R(0)]
            minusDI == [k \in idx |->
                          IF RNe(smoothedTR[k], R(0))
                          THEN FMul(FDiv(smoothedMinusDM[k], smoothedTR[k]), R(100))
                          ELSE R(0)]
            dx      == [k \in idx |-> DX(plusDI[k], minusDI[k])]
        IN  [adx     |-> Smooth(dx, alpha, len - 1, fuse),
             plusDI  |-> plusDI,
             minusDI |-> minusDI]

-----------------------------------------------------------------------------
(* SpecADX: the ADX calculator on bounded inputs of valid OHLC *)

InitADX ==
    /\ pc = "call"
    /\ arg \in [fn : {"ADXCalculate"}, period : Periods, candles : ATRSeries]
    /\ ret = Nil
    /\ RunIdle

CallADXCalculate ==
    /\ pc = "call"
    /\ arg.fn = "ADXCalculate"
    /\ \E fuse \in Fusings : ret' = ADXCalculate(arg.period, arg.candles, fuse)
    /\ pc' = "return"
    /\ UNCHANGED <<arg, calls, strategy, n, i, candle, prevMainCF, longCond,
                   currentPosition, currentBalance, trades, opened, result,
                   divisions, dbResults, raised, retResult, retErr>>

NextADX == CallADXCalculate

SpecADX == InitADX /\ [][NextADX]_vars

Percent(x) == RLe(R(0), x) /\ RLe(x, R(100))

\* C12: for valid OHLC every ADX[i], +DI[i] and -DI[i] returned by
\* ADXCalculator.Calculate lies within [0, 100]
C12_DirectionalWithinPercent ==
    pc = "return" =>
        /\ Len(ret.adx) = Len(arg.candles)
        /\ \A k \in 1..Len(arg.candles) :
              /\ Percent(ret.adx[k])
              /\ Percent(ret.plusDI[k])
              /\ Percent(ret.minusDI[k])

\* a series whose directional movement is all upward: +DI is at 100, -DI at
\* 0 and the smoothed ADX lies strictly between the two ends
C12_Witness ==
    /\ pc = "return"
    /\ Len(arg.candles) = 3
    /\ arg.period = 14
    /\ ret.plusDI[3] = R(100)
    /\ ret.minusDI[3] = R(0)
    /\ RGt(ret.adx[3], R(0))
    /\ RLt(ret.adx[3], R(100))

-----------------------------------------------------------------------------
(* The indicator arrays of a run, read at one index *)

calculateSecondTotalKlines(config, mainCFEntry, prevSecondTotalKlines) ==
    IF REq(mainCFEntry, R(0)) \/ REq(config.SecondCFEnv, R(0))
    THEN config.SecondTotalKlinesMin
    ELSE LET divisor == RMul(mainCFEntry, config.SecondCFEnv)
         IN  IF REq(divisor, R(0)) THEN prevSecondTotalKlines
             ELSE LET secondTotalKlines ==
                          Trunc(RDiv(R(prevSecondTotalKlines), RAbs(divisor)))
                  IN  IF secondTotalKlines < config.SecondTotalKlinesMin
                      THEN config.SecondTotalKlinesMin
                      ELSE secondTotalKlines

CalculateSecondCF(config, candles, entryIdx, mainCFEntry, prevSecondTotalKlines) ==
    LET secondTotalKlines ==
            calculateSecondTotalKlines(config, mainCFEntry, prevSecondTotalKlines)
    IN  IF entryIdx + secondTotalKlines >= Len(candles) THEN R(0)
        ELSE IF secondTotalKlines < 0 THEN Panic
        ELSE calculateCF(Slice(candles, entryIdx, entryIdx + secondTotalKlines),
                         R(0))

\* candles[:idx+1]
Prefix(candles, idx) == SubSeq(candles, 1, idx + 1)

\* mainCF[idx] and secondCF[idx] as calculateCFIndicators fills them
calculateCFIndicators(config, candles, idx, impl) ==
    IF idx = 0 THEN [mainCF |-> R(0), secondCF |-> R(0)]
    ELSE LET main == CalculateMainCF(config, Prefix(candles, idx), idx, R(0), impl)
         IN  [mainCF   |-> IF "panic" \in DOMAIN main THEN main ELSE main.mainCF,
              secondCF |-> CalculateSecondCF(config, Prefix(candles, idx), idx,
                                             R(0), 0)]

\* checkEntrySignal on the float64 arrays: the comparisons it makes, handed to
\* the operator as the integers that decide them
SignalAt(idx, cf, cfPrev, adx, plusDI, minusDI) ==
    checkEntrySignal(idx, Sign(cf.n), Sign(cfPrev.n),
                     IF RGt(adx, R(ADXThreshold)) THEN ADXThreshold + 1
                     ELSE ADXThreshold,
                     IF RGt(plusDI, minusDI) THEN 1 ELSE 0,
                     IF RGt(minusDI, plusDI) THEN 1 ELSE 0,
                     LoadedStrategy)

\* the values at idx of the arrays Run hands to executeBacktest, and the signal
\* the loop evaluates there
ReadAt(idx, indicators, before, atrSeries, adxSeries) ==
    [mainCF   |-> indicators.mainCF,
     secondCF |-> indicators.secondCF,
     atr      |-> atrSeries[idx + 1],
     adx      |-> adxSeries.adx[idx + 1],
     plusDI   |-> adxSeries.plusDI[idx + 1],
     minusDI  |-> adxSeries.minusDI[idx + 1],
     signal   |-> IF \/ "panic" \in DOMAIN indicators.mainCF
                     \/ "panic" \in DOMAIN before.mainCF
                  THEN "panic"
                  ELSE SignalAt(idx, indicators.mainCF, before.mainCF,
                                adxSeries.adx[idx + 1],
                                adxSeries.plusDI[idx + 1],
                                adxSeries.minusDI[idx + 1])]

\* what Run computes of the series before the trading loop, read at idx
IndicatorsAt(config, candles, idx, fuse, impl) ==
    ReadAt(idx,
           calculateCFIndicators(config, candles, idx, impl),
           calculateCFIndicators(config, candles, IF idx = 0 THEN 0 ELSE idx - 1,
                                 impl),
           Calculate(14, candles, fuse),
           ADXCalculate(14, candles, fuse))

-----------------------------------------------------------------------------
(* SpecCausal: two series that agree up to an index, run by the same build *)

MaxPairLen == 4

PairPrices == {1, 2}

PairCandles ==
    {c \in [High : PairPrices, Low : PairPrices, Close : PairPrices] :
        c.Low <= c.Close /\ c.Close <= c.High}

PairSeries == UNION {[1..len -> PairCandles] : len \in 1..MaxPairLen}

\* what a second series may hold after the index: nothing or one candle
Futures == {<<>>} \cup {<<c>> : c \in PairCandles}

\* the base window of 3 candles is widened to 4, so MainCF is computed from
\* index 3 on; Epsilon > 0 keeps newTotalKlinesFloat finite, so the int()
\* of a non-finite value is never taken
PairConfig ==
    [TotalKlines |-> 3, CustomAmplitude |-> R(2), Epsilon |-> Rat(1, 10),
     NewTotalKlinesMin |-> 4, NewTotalKlinesMax |-> 4,
     SecondCFEnv |-> R(1), SecondTotalKlinesMin |-> 1]

\* a series, an index of it and a second series that agrees with it there
PairCalls ==
    UNION {{[fn |-> "indicators", a |-> a, b |-> Prefix(a, idx) \o future,
             idx |-> idx] : idx \in 0..(Len(a) - 1), future \in Futures} :
           a \in PairSeries}

InitCausal ==
    /\ pc = "call"
    /\ arg \in PairCalls
    /\ ret = Nil
    /\ RunIdle

CallIndicators ==
    /\ pc = "call"
    /\ arg.fn = "indicators"
    /\ \E fuse \in Fusings :
          ret' = [a |-> IndicatorsAt(PairConfig, arg.a, arg.idx, fuse, 0),
                  b |-> IndicatorsAt(PairConfig, arg.b, arg.idx, fuse, 0)]
    /\ pc' = "return"
    /\ UNCHANGED <<arg, calls, strategy, n, i, candle, prevMainCF, longCond,
                   currentPosition, currentBalance, trades, opened, result,
                   divisions, dbResults, raised, retResult, retErr>>

NextCausal == CallIndicators

SpecCausal == InitCausal /\ [][NextCausal]_vars

\* C13 as stated: two series that agree on all candles at indices <= idx give
\* equal MainCF, SecondCF, ATR, ADX, +DI, -DI and entry signal at idx
C13_NoLookAhead == pc = "return" => ret.a = ret.b

\* C13: two series of at least two candles each that agree on all candles at
\* indices <= idx give equal MainCF, SecondCF, ATR, ADX, +DI, -DI and entry
\* signal at idx
C13_NoLookAheadFromTwo ==
    (pc = "return" /\ Len(arg.a) >= 2 /\ Len(arg.b) >= 2) => ret.a = ret.b

\* two different series that agree up to an index where the indicators are
\* away from zero and the entry signal is LONG
C13_Witness ==
    /\ pc = "return"
    /\ arg.a # arg.b
    /\ Len(arg.a) >= 2 /\ Len(arg.b) >= 2
    /\ ret.a.signal = "LONG"
    /\ ret.b.signal = "LONG"
    /\ RGt(ret.a.atr, R(0))
    /\ RGt(ret.a.mainCF, R(0))

-----------------------------------------------------------------------------
(* SpecServe: concurrent requests to Server.runBacktest on one database *)

MaxRuns == 2

Runs == 1..MaxRuns

\* the strategies table: two strategies whose CF configurations differ in the
\* base window
StrategyNames == {"base3", "base4"}

StrategyRow(name) ==
    IF name = "base3" THEN [ID |-> 3, config |-> PairConfig]
    ELSE [ID |-> 4, config |-> [PairConfig EXCEPT !.TotalKlines = 4]]

\* candle series of flat bars at the given closes
FlatSeries(closes) == [k \in 1..Len(closes) |-> Bar(k - 1, closes[k], closes[k], closes[k])]

\* a request names a strategy and a range; what it reads of the range are the
\* candles and the ATR and ADX arrays, here constant over the range: a rising
\* range with +DI above -DI, a falling one with -DI above +DI, a level one
Ranges ==
    {[candles |-> FlatSeries(<<1, 1, 2, 2, 3, 3>>), adx |-> ADXThreshold + 1,
      plusDI |-> 1, minusDI |-> 0, atr |-> 1],
     [candles |-> FlatSeries(<<3, 3, 2, 2, 1, 1>>), adx |-> ADXThreshold + 1,
      plusDI |-> 0, minusDI |-> 1, atr |-> 1],
     [candles |-> FlatSeries(<<2, 2, 2, 2, 2, 2>>), adx |-> ADXThreshold,
      plusDI |-> 0, minusDI |-> 0, atr |-> 0]}

Requests == [StrategyName : StrategyNames, range : Ranges]

\* a variant in which every request is served by one and the same engine
EngineShared(r) == 1

\* engine := backtester.NewEngine(s.db, req.StrategyName): the engine that
\* serves request r is the request's own
EngineOf(r) == r

NoEngine == [strategyName |-> "", cfCalculator |-> Nil, atrCalc |-> 0, adxCalc |-> 0]

\* what one goroutine holds on its stack while it serves a request
NewLocal ==
    [pc |-> "NewEngine", strategy |-> Nil, config |-> Nil, i |-> 0,
     currentPosition |-> Nil, currentBalance |-> R(0), trades |-> <<>>,
     result |-> Nil]

\* mainCF[idx] of the arrays computed with the given calculator configuration,
\* as the sign checkEntrySignal tests
MainCFSign(config, candles, idx) ==
    Sign(calculateCFIndicators(config, candles, idx, 0).mainCF.n)

\* one iteration of the trading loop on the locals of a run
LoopBody(l, range) ==
    LET c == range.candles[l.i + 1]
    IN  IF l.currentPosition = Nil
        THEN LET signal == checkEntrySignal(l.i,
                               MainCFSign(l.config, range.candles, l.i),
                               MainCFSign(l.config, range.candles, l.i - 1),
                               range.adx, range.plusDI, range.minusDI,
                               LoadedStrategy)
                 position == openPosition(signal, c, range.atr, l.currentBalance)
             IN  IF signal # ""
                 THEN [l EXCEPT !.currentPosition = position,
                                !.currentBalance = debit(@, position, c),
                                !.i = @ + 1]
                 ELSE [l EXCEPT !.i = @ + 1]
        ELSE IF checkExitSignal(l.currentPosition, c)
        THEN LET trade == closePosition(l.currentPosition, c)
             IN  [l EXCEPT !.currentBalance = credit(@, trade, l.currentPosition),
                           !.trades = Append(@, settle(trade, l.currentPosition)),
                           !.currentPosition = Nil,
                           !.i = @ + 1]
        ELSE [l EXCEPT !.i = @ + 1]

\* the end of executeBacktest and the fields Run fills in before it saves
AfterLoop(l, range) ==
    LET lastCandle == range.candles[Len(range.candles)]
        trade      == closePosition(l.currentPosition, lastCandle)
        balance    == IF l.currentPosition # Nil
                      THEN credit(l.currentBalance, trade, l.currentPosition)
                      ELSE l.currentBalance
        ledger     == IF l.currentPosition # Nil
                      THEN Append(l.trades, settle(trade, l.currentPosition))
                      ELSE l.trades
    IN  [l EXCEPT !.currentBalance = balance,
                  !.trades = ledger,
                  !.result = [calculateMetrics(@, ledger, initialBalance, balance)
                                EXCEPT !.InstrumentID = 7,
                                       !.StrategyID = l.strategy.ID],
                  !.pc = "SaveBacktestResult"]

\* INSERT ... RETURNING id: the row gets the next id of the table's sequence,
\* which Scan stores in result.ID
Saved(l, table) ==
    [l EXCEPT !.result = [ID |-> Len(table) + 1] @@ @, !.pc = "done"]

\* the locals of a run once candles and indicator arrays are there
Loaded(l, config) ==
    [l EXCEPT !.config = config, !.i = 1, !.currentPosition = Nil,
              !.currentBalance = initialBalance, !.trades = <<>>,
              !.result = NewResult, !.pc = "loop"]

RECURSIVE Simulate(_, _)
Simulate(l, range) ==
    IF l.i >= Len(range.candles) THEN l ELSE Simulate(LoopBody(l, range), range)

\* the result of a request served alone on an empty backtest_results table
Alone(req) ==
    LET row == StrategyRow(req.StrategyName)
        l   == Loaded([NewLocal EXCEPT !.strategy = row], row.config)
    IN  Saved(AfterLoop(Simulate(l, req.range), req.range), <<>>).result

InitServe ==
    /\ pc = "serve"
    /\ arg \in [Runs -> Requests]
    /\ ret = [engines |-> [r \in Runs |-> NoEngine], locals |-> [r \in Runs |-> NewLocal]]
    /\ dbResults = <<>>
    /\ calls = <<>> /\ strategy = Nil /\ n = 0 /\ i = 0 /\ candle = NoCandle
    /\ prevMainCF = 0 /\ longCond = FALSE /\ currentPosition = Nil
    /\ currentBalance = R(0) /\ trades = <<>> /\ opened = <<>> /\ result = Nil
    /\ divisions = 0 /\ raised = NoError /\ retResult = Nil /\ retErr = NoError

ServeIdle ==
    UNCHANGED <<pc, arg, calls, strategy, n, i, candle, prevMainCF, longCond,
                currentPosition, currentBalance, trades, opened, result,
                divisions, raised, retResult, retErr>>

\* runBacktest builds the engine of the request
ServeNewEngine(r) ==
    /\ ret.locals[r].pc = "NewEngine"
    /\ ret' = [ret EXCEPT
                 !.engines[EngineOf(r)] =
                     [NoEngine EXCEPT !.strategyName = arg[r].StrategyName],
                 !.locals[r].pc = "GetStrategyByName"]
    /\ UNCHANGED dbResults
    /\ ServeIdle

\* Run loads the strategy named in its engine and stores the calculators in
\* the engine
ServeGetStrategy(r) ==
    /\ ret.locals[r].pc = "GetStrategyByName"
    /\ LET row == StrategyRow(ret.engines[EngineOf(r)].strategyName)
       IN  ret' = [ret EXCEPT
                     !.engines[EngineOf(r)].cfCalculator = row.config,
                     !.engines[EngineOf(r)].atrCalc = 14,
                     !.engines[EngineOf(r)].adxCalc = 14,
                     !.locals[r].strategy = row,
                     !.locals[r].pc = "GetCandlesByTimeRange"]
    /\ UNCHANGED dbResults
    /\ ServeIdle

\* Run loads the candles and computes the indicator arrays with the
\* calculators its engine holds at that moment; executeBacktest starts
ServeGetCandles(r) ==
    /\ ret.locals[r].pc = "GetCandlesByTimeRange"
    /\ LET calculator == ret.engines[EngineOf(r)].cfCalculator
       IN  ret' = [ret EXCEPT
                     !.locals[r] = IF calculator = Nil
                                   THEN [@ EXCEPT !.pc = "panic"]
                                   ELSE Loaded(@, calculator)]
    /\ UNCHANGED dbResults
    /\ ServeIdle

ServeLoop(r) ==
    /\ ret.locals[r].pc = "loop"
    /\ ret.locals[r].i < Len(arg[r].range.candles)
    /\ ret' = [ret EXCEPT !.locals[r] = LoopBody(@, arg[r].range)]
    /\ UNCHANGED dbResults
    /\ ServeIdle

ServeAfterLoop(r) ==
    /\ ret.locals[r].pc = "loop"
    /\ ret.locals[r].i >= Len(arg[r].range.candles)
    /\ ret' = [ret EXCEPT !.locals[r] = AfterLoop(@, arg[r].range)]
    /\ UNCHANGED dbResults
    /\ ServeIdle

ServeSave(r) ==
    /\ ret.locals[r].pc = "SaveBacktestResult"
    /\ ret' = [ret EXCEPT !.locals[r] = Saved(@, dbResults)]
    /\ dbResults' = Append(dbResults, Saved(ret.locals[r], dbResults).result)
    /\ ServeIdle

NextServe ==
    \E r \in Runs :
        \/ ServeNewEngine(r)
        \/ ServeGetStrategy(r)
        \/ ServeGetCandles(r)
        \/ ServeLoop(r)
        \/ ServeAfterLoop(r)
        \/ ServeSave(r)

SpecServe == InitServe /\ [][NextServe]_vars

Served(r) == ret.locals[r].pc = "done"

WithoutID(res) == [res EXCEPT !.ID = 0]

\* C16 as stated: whatever the interleaving, the result of each run equals the
\* result the run produces when executed alone
C16_ResultAsAlone ==
    pc = "serve" =>
        \A r \in Runs : Served(r) => ret.locals[r].result = Alone(arg[r])

\* C16: whatever the interleaving, no run fails on a calculator it does not
\* own and the result of each run equals, apart from the id the database
\* assigns to its row, the result the run produces when executed alone
C16_ResultAsAloneUpToID ==
    pc = "serve" =>
        \A r \in Runs :
            /\ ret.locals[r].pc # "panic"
            /\ Served(r) =>
                  WithoutID(ret.locals[r].result) = WithoutID(Alone(arg[r]))

\* two runs of the same range under different strategies, both finished with
\* a trade each, results that differ, the second request saved first
C16_Witness ==
    /\ pc = "serve"
    /\ Served(1) /\ Served(2)
    /\ arg[1].range = arg[2].range
    /\ arg[1].StrategyName # arg[2].StrategyName
    /\ ret.locals[1].result.TotalTrades = 1
    /\ ret.locals[2].result.TotalTrades = 1
    /\ WithoutID(ret.locals[1].result) # WithoutID(ret.locals[2].result)
    /\ ret.locals[1].result.ID = 2

-----------------------------------------------------------------------------
(* SpecEntry: checkEntrySignal and openPosition on bounded inputs *)

MaxIdx == 3

\* indicator arrays around an index idx: mainCF at idx-1, idx and idx+1, the
\* others at idx and idx+1
SignalCalls ==
    [fn : {"checkEntrySignal"}, idx : 0..MaxIdx,
     mainCF : [1..3 -> CFValues], adx : [1..2 -> ADXValues],
     plusDI : [1..2 -> DIValues], minusDI : [1..2 -> DIValues]]

\* a position is sized on a balance and opened on a candle; close 100 with
\* ATR 2 is among the inputs
OpenCalls ==
    [fn : {"openPosition"}, signal : {"LONG", "SHORT"},
     candle : {Bar(k, cl, cl, cl) : k \in 1..2, cl \in {1, 50, 100}},
     atr : 0..2, balance : {initialBalance, R(9000), Rat(1, 2)}]

InitEntry ==
    /\ pc = "call"
    /\ arg \in SignalCalls \cup OpenCalls
    /\ ret = Nil
    /\ RunIdle

\* the signal at idx and the signal at idx + 1 of the same arrays
CallCheckEntrySignal ==
    /\ pc = "call"
    /\ arg.fn = "checkEntrySignal"
    /\ ret' = [k \in 1..2 |->
                 checkEntrySignal(arg.idx + k - 1, arg.mainCF[k + 1], arg.mainCF[k],
                                  arg.adx[k], arg.plusDI[k], arg.minusDI[k],
                                  LoadedStrategy)]
    /\ pc' = "return"
    /\ UNCHANGED <<arg, calls, strategy, n, i, candle, prevMainCF, longCond,
                   currentPosition, currentBalance, trades, opened, result,
                   divisions, dbResults, raised, retResult, retErr>>

CallOpenPosition ==
    /\ pc = "call"
    /\ arg.fn = "openPosition"
    /\ ret' = openPosition(arg.signal, arg.candle, arg.atr, arg.balance)
    /\ pc' = "return"
    /\ UNCHANGED <<arg, calls, strategy, n, i, candle, prevMainCF, longCond,
                   currentPosition, currentBalance, trades, opened, result,
                   divisions, dbResults, raised, retResult, retErr>>

NextEntry == CallCheckEntrySignal \/ CallOpenPosition

SpecEntry == InitEntry /\ [][NextEntry]_vars

SignalReturned == pc = "return" /\ arg.fn = "checkEntrySignal"

\* the conditions of the claim on the arrays at position k of the call (1 for
\* idx, 2 for idx + 1)
LongAt(k) ==
    /\ arg.idx + k - 1 >= 2
    /\ arg.mainCF[k] <= 0 /\ arg.mainCF[k + 1] > 0
    /\ arg.adx[k] > ADXThreshold
    /\ arg.plusDI[k] > arg.minusDI[k]

ShortAt(k) ==
    /\ arg.idx + k - 1 >= 2
    /\ arg.mainCF[k] >= 0 /\ arg.mainCF[k + 1] < 0
    /\ arg.adx[k] > ADXThreshold
    /\ arg.minusDI[k] > arg.plusDI[k]

\* C18: checkEntrySignal returns LONG exactly on an upward zero crossing of
\* MainCF at an index >= 2 with ADX above the threshold and +DI above -DI,
\* SHORT exactly on the mirrored conditions, nothing otherwise, and the two
\* sets of conditions never hold together
C18_SignalIffConditions ==
    SignalReturned =>
        \A k \in 1..2 :
            /\ ret[k] \in {"LONG", "SHORT", ""}
            /\ ret[k] = "LONG" <=> LongAt(k)
            /\ ret[k] = "SHORT" <=> ShortAt(k)
            /\ ~(LongAt(k) /\ ShortAt(k))

\* a SHORT at an index >= 2 with MainCF coming from exactly zero
C18_Witness ==
    /\ SignalReturned
    /\ arg.idx >= 2
    /\ arg.mainCF[1] = 0
    /\ ret[1] = "SHORT"
    /\ ret[2] = "LONG"

\* C19: checkEntrySignal never returns the same side at idx and idx + 1, and
\* returns no signal at an index where MainCF is zero
C19_NoRetrigger ==
    SignalReturned =>
        /\ ret[1] # "" => ret[2] # ret[1]
        /\ \A k \in 1..2 : arg.mainCF[k + 1] = 0 => ret[k] = ""

\* a LONG at idx; at idx + 1 MainCF is still positive and ADX and DI still
\* favour a LONG, yet no signal is returned
C19_Witness ==
    /\ SignalReturned
    /\ ret[1] = "LONG"
    /\ arg.mainCF[3] > 0
    /\ arg.adx[2] > ADXThreshold
    /\ arg.plusDI[2] > arg.minusDI[2]
    /\ ret[2] = ""

OpenReturned == pc = "return" /\ arg.fn = "openPosition"

\* C20: the position openPosition returns has the candle's close and timestamp
\* as entry price and time, a size worth a tenth of the balance at that price,
\* and levels 2 ATR against and 3 ATR in favour of its side; a LONG at close
\* 100 with ATR 2 has stop-loss 96 and take-profit 106
C20_PositionFields ==
    OpenReturned =>
        /\ ret.Side = arg.signal
        /\ ret.EntryPrice = arg.candle.Close
        /\ ret.EntryTime = arg.candle.Timestamp
        /\ REq(RMul(RMul(ret.Size, R(arg.candle.Close)), R(10)), arg.balance)
        /\ arg.signal = "LONG" =>
              /\ ret.EntryPrice - ret.StopLoss = 2 * arg.atr
              /\ ret.TakeProfit - ret.EntryPrice = 3 * arg.atr
        /\ arg.signal = "SHORT" =>
              /\ ret.StopLoss - ret.EntryPrice = 2 * arg.atr
              /\ ret.EntryPrice - ret.TakeProfit = 3 * arg.atr
        /\ (arg.signal = "LONG" /\ arg.candle.Close = 100 /\ arg.atr = 2) =>
              ret.StopLoss = 96 /\ ret.TakeProfit = 106

\* the example of the claim: a LONG at close 100 with ATR 2 on the initial
\* balance, sized at 10
C20_Witness ==
    /\ OpenReturned
    /\ arg.signal = "LONG"
    /\ arg.candle.Close = 100
    /\ arg.atr = 2
    /\ arg.balance = initialBalance
    /\ ret.StopLoss = 96
    /\ ret.TakeProfit = 106
    /\ ret.Size = R(10)

-----------------------------------------------------------------------------
(* Claims on the balance and the ledger of a run *)

\* a step of executeBacktest opened a position, converted one into a trade
OpensPosition == Len(opened') > Len(opened)

ClosesPosition == Len(trades') > Len(trades)

\* C21: a step that opens a position subtracts size * close of the entry
\* candle from the balance, a step that closes one adds size * exitPrice, and
\* any other step of the loop leaves the balance and the open position as
\* they are
C21_BalanceFrame ==
    [][pc = "loop" =>
          /\ OpensPosition =>
                REq(currentBalance',
                    RSub(currentBalance,
                         RMul(currentPosition'.Size, R(currentPosition'.EntryPrice))))
          /\ ClosesPosition =>
                REq(currentBalance',
                    RAdd(currentBalance,
                         RMul(LastTrade'.Size, R(LastTrade'.ExitPrice))))
          /\ (~OpensPosition /\ ~ClosesPosition) =>
                /\ currentBalance' = currentBalance
                /\ currentPosition' = currentPosition]_vars

\* a position with levels away from its entry price that has stayed open over
\* two bars after its entry bar, the balance still at the debited amount
C21_Witness ==
    /\ pc = "loop"
    /\ currentPosition # Nil
    /\ i >= currentPosition.EntryTime + 3
    /\ currentPosition.StopLoss # currentPosition.EntryPrice
    /\ Len(opened) = Len(trades) + 1
    /\ currentBalance = R(InitialBalance - InitialBalance \div 10)

\* the P&L the claim gives a trade of the given side, prices and size
ClaimedPnL(side, entryPrice, exitPrice, size) ==
    IF side = "LONG" THEN RMul(R(exitPrice - entryPrice), size)
    ELSE RNeg(RMul(R(exitPrice - entryPrice), size))

\* C22: every trade of the ledger carries the size its position was opened
\* with and the P&L (exitPrice - entryPrice) * size, negated for a SHORT
C22_PnLBySide ==
    \A k \in 1..Len(trades) :
        /\ trades[k].Side = opened[k].Side
        /\ trades[k].Size = opened[k].Size
        /\ REq(trades[k].PnL,
               ClaimedPnL(trades[k].Side, trades[k].EntryPrice,
                          trades[k].ExitPrice, opened[k].Size))

\* a ledger of two trades: a SHORT closed in the loop at a price below its
\* entry, with a positive P&L, and a trade closed by the forced closure
C22_Witness ==
    /\ pc = "calculateMetrics"
    /\ Len(trades) = 2
    /\ trades[1].Side = "SHORT"
    /\ trades[1].ExitPrice < trades[1].EntryPrice
    /\ RGt(trades[1].PnL, R(0))
    /\ currentPosition # Nil

RECURSIVE LedgerSum(_, _)
\* the sum of the P&L over the trades of ts whose index is in the set idx
LedgerSum(ts, idx) ==
    IF idx = {} THEN R(0)
    ELSE LET k == CHOOSE x \in idx : TRUE
         IN  RAdd(ts[k].PnL, LedgerSum(ts, idx \ {k}))

Gains(ts) == {k \in 1..Len(ts) : RGt(ts[k].PnL, R(0))}

Losses(ts) == {k \in 1..Len(ts) : RLe(ts[k].PnL, R(0))}

MetricsFilled == pc \in {"SaveBacktestResult", "done"} /\ result # Nil

\* C23: over a non-empty ledger a trade counts as winning iff its P&L is
\* positive and as losing iff it is not, the win rate is the share of winners
\* in percent, and the key profit_factor is there iff the average loss is not
\* zero, that is iff some trade has a negative P&L, with the value
\* totalProfit / (-totalLoss)
C23_MetricsOfLedger ==
    (MetricsFilled /\ Len(trades) >= 1) =>
        /\ result.TotalTrades = Len(trades)
        /\ result.WinningTrades = Cardinality(Gains(trades))
        /\ result.LosingTrades = Cardinality(Losses(trades))
        /\ result.WinningTrades + result.LosingTrades = result.TotalTrades
        /\ REq(RMul(result.WinRate, R(result.TotalTrades)),
               R(100 * result.WinningTrades))
        /\ "profit_factor" \in DOMAIN result.Metrics
              <=> /\ "avg_loss" \in DOMAIN result.Metrics
                  /\ RNe(result.Metrics["avg_loss"], R(0))
        /\ "profit_factor" \in DOMAIN result.Metrics
              <=> \E k \in 1..Len(trades) : RLt(trades[k].PnL, R(0))
        /\ "profit_factor" \in DOMAIN result.Metrics =>
              REq(result.Metrics["profit_factor"],
                  RDiv(LedgerSum(trades, Gains(trades)),
                       RNeg(LedgerSum(trades, Losses(trades)))))

\* a ledger of a winner and a trade of zero P&L: the second counts as losing,
\* the average loss is zero and there is no profit_factor
C23_Witness ==
    /\ MetricsFilled
    /\ Len(trades) = 2
    /\ RGt(trades[1].PnL, R(0))
    /\ REq(trades[2].PnL, R(0))
    /\ result.LosingTrades = 1
    /\ "avg_loss" \in DOMAIN result.Metrics
    /\ "profit_factor" \notin DOMAIN result.Metrics

-----------------------------------------------------------------------------
(* SpecWindows: the CF arrays of calculateCFIndicators and CalculateSecondCF *)
(* on bounded series                                                       *)

MaxSeriesLen == 5

WindowPrices == {1, 2}

WindowCandles == {c \in [High : WindowPrices, Low : WindowPrices] : c.Low <= c.High}

WindowSeries == UNION {[1..len -> WindowCandles] : len \in 1..MaxSeriesLen}

\* a base window of 3 candles that adapts to 3 candles when its amplitude is
\* 1 and to 4 when it is flat, and one that always adapts to 4; the window for
\* SecondCF is 1 or 4 candles at least
WindowConfigs ==
    {[PairConfig EXCEPT !.CustomAmplitude = R(1), !.NewTotalKlinesMin = min,
                        !.SecondTotalKlinesMin = second] :
        min \in {3, 4}, second \in {1, 4}}

IndicatorCalls ==
    {a \in [fn : {"calculateCFIndicators"}, config : WindowConfigs,
            candles : WindowSeries, idx : 1..(MaxSeriesLen - 1)] :
        a.idx < Len(a.candles)}

SecondCFCalls ==
    {a \in [fn : {"CalculateSecondCF"}, config : WindowConfigs,
            candles : WindowSeries, entryIdx : 0..(MaxSeriesLen - 1),
            mainCFEntry : {R(0), Rat(1, 2)}, prevSecondTotalKlines : {0, 2}] :
        a.entryIdx < Len(a.candles)}

InitWindows ==
    /\ pc = "call"
    /\ arg \in IndicatorCalls \cup SecondCFCalls
    /\ ret = Nil
    /\ RunIdle

\* mainCF[idx] and mainCF[idx-1] of the arrays calculateCFIndicators builds,
\* with what CalculateMainCF returned for idx
CallCalculateCFIndicators ==
    /\ pc = "call"
    /\ arg.fn = "calculateCFIndicators"
    /\ ret' = [main   |-> CalculateMainCF(arg.config, Prefix(arg.candles, arg.idx),
                                          arg.idx, R(0), 0),
               at     |-> calculateCFIndicators(arg.config, arg.candles, arg.idx, 0),
               before |-> calculateCFIndicators(arg.config, arg.candles,
                                                arg.idx - 1, 0)]
    /\ pc' = "return"
    /\ UNCHANGED <<arg, calls, strategy, n, i, candle, prevMainCF, longCond,
                   currentPosition, currentBalance, trades, opened, result,
                   divisions, dbResults, raised, retResult, retErr>>

\* the two values CalculateSecondCF returns
CallCalculateSecondCF ==
    /\ pc = "call"
    /\ arg.fn = "CalculateSecondCF"
    /\ ret' = [secondCF |->
                   CalculateSecondCF(arg.config, arg.candles, arg.entryIdx,
                                     arg.mainCFEntry, arg.prevSecondTotalKlines),
               secondTotalKlines |->
                   calculateSecondTotalKlines(arg.config, arg.mainCFEntry,
                                              arg.prevSecondTotalKlines)]
    /\ pc' = "return"
    /\ UNCHANGED <<arg, calls, strategy, n, i, candle, prevMainCF, longCond,
                   currentPosition, currentBalance, trades, opened, result,
                   divisions, dbResults, raised, retResult, retErr>>

NextWindows == CallCalculateCFIndicators \/ CallCalculateSecondCF

SpecWindows == InitWindows /\ [][NextWindows]_vars

\* CalculateMainCF extracted an adaptive window for the bar, of fewer than 4
\* candles
ShortWindow ==
    /\ pc = "return"
    /\ arg.fn = "calculateCFIndicators"
    /\ arg.idx >= arg.config.TotalKlines
    /\ "panic" \notin DOMAIN ret.main
    /\ ret.main.newTotalKlines < 4

\* C24: when the adaptive window at bar t holds fewer than 4 candles, MainCF[t]
\* of the arrays built by calculateCFIndicators equals MainCF[t-1]
C24_ShortWindowKeepsPrevious ==
    ShortWindow => ret.at.mainCF = ret.before.mainCF

SecondCFReturned == pc = "return" /\ arg.fn = "CalculateSecondCF"

\* the window [entryIdx, entryIdx + secondTotalKlines) lies inside the series
SecondWindowFits ==
    /\ ret.secondTotalKlines >= 0
    /\ arg.entryIdx + ret.secondTotalKlines <= Len(arg.candles)

\* C25: CalculateSecondCF returns the half-split CF of the window
\* [entryIdx, entryIdx + secondTotalKlines) whenever the window fits inside
\* the series, a window ending at the last candle included, and 0 with the
\* window size exactly when it does not fit
C25_SecondCFWhenWindowFits ==
    SecondCFReturned =>
        /\ SecondWindowFits =>
              ret.secondCF =
                  calculateCF(Slice(arg.candles, arg.entryIdx,
                                    arg.entryIdx + ret.secondTotalKlines), R(0))
        /\ ~SecondWindowFits => ret.secondCF = R(0)

-----------------------------------------------------------------------------
(* Claims on the adaptive window of a volatile base window *)

\* the base window [t-totalKlines+1, t] of a call
BaseWindow ==
    Slice(arg.candles, arg.t - arg.config.TotalKlines + 1, arg.t + 1)

\* aCurrent = (highWindow - lowWindow) / lowWindow over the base window
BaseAmplitude ==
    RDiv(R(findMaxHigh(BaseWindow) - findMinLow(BaseWindow)),
         R(findMinLow(BaseWindow)))

\* calculateNewTotalKlines returned for a base window above the target
VolatileReturn ==
    /\ pc = "return"
    /\ arg.fn = "calculateNewTotalKlines"
    /\ RGt(BaseAmplitude, arg.config.CustomAmplitude)

-----------------------------------------------------------------------------
(* Claims on the P&L, the order and the balance of the ledger *)

\* C27: at the end of executeBacktest the reported TotalPnL, the final
\* balance less the initial balance, equals the sum of the P&L of all trades
\* of the ledger, for any mix of LONG and SHORT trades
C27_TotalPnLIsLedgerSum ==
    (MetricsFilled /\ Len(trades) >= 1) =>
        REq(result.TotalPnL, LedgerSum(trades, 1..Len(trades)))

-----------------------------------------------------------------------------
(* SpecLevels: openPosition, closePosition and the P&L in float arithmetic,
   for an ATR that is small against the close *)

\* close + k*atr (sign 1) or close - k*atr (sign -1) as the float expression
\* evaluates it: the product rounded and then the sum, or both fused
Level(close, k, atr, sign, fused) ==
    LET exact == RMul(R(sign * k), atr)
    IN  IF fused THEN Fl(RAdd(close, exact))
        ELSE FAdd(close, Fl(exact))

\* a variant of openPosition that places the levels of a LONG on either side
openPositionFloatAsLong(signal, c, atr, balance, fused) ==
    [Side       |-> signal,
     EntryPrice |-> R(c.Close),
     EntryTime  |-> c.Timestamp,
     Size       |-> FDiv(FMul(balance, Fl(Rat(1, 10))), R(c.Close)),
     StopLoss   |-> Level(R(c.Close), 2, atr, -1, fused),
     TakeProfit |-> Level(R(c.Close), 3, atr, 1, fused)]

\* openPosition on a float ATR
openPositionFloat(signal, c, atr, balance, fused) ==
    [Side       |-> signal,
     EntryPrice |-> R(c.Close),
     EntryTime  |-> c.Timestamp,
     Size       |-> FDiv(FMul(balance, Fl(Rat(1, 10))), R(c.Close)),
     StopLoss   |-> IF signal = "LONG" THEN Level(R(c.Close), 2, atr, -1, fused)
                    ELSE Level(R(c.Close), 2, atr, 1, fused),
     TakeProfit |-> IF signal = "LONG" THEN Level(R(c.Close), 3, atr, 1, fused)
                    ELSE Level(R(c.Close), 3, atr, -1, fused)]

\* closePosition on float levels: the stop-loss is tested first
closePositionFloat(position, c) ==
    [Side       |-> position.Side,
     EntryPrice |-> position.EntryPrice,
     EntryTime  |-> position.EntryTime,
     ExitPrice  |->
        IF position.Side = "LONG"
        THEN IF RLe(R(c.Low), position.StopLoss) THEN position.StopLoss
             ELSE IF RLe(position.TakeProfit, R(c.High)) THEN position.TakeProfit
             ELSE R(c.Close)
        ELSE IF RLe(position.StopLoss, R(c.High)) THEN position.StopLoss
             ELSE IF RLe(R(c.Low), position.TakeProfit) THEN position.TakeProfit
             ELSE R(c.Close),
     ExitTime   |-> c.Timestamp,
     Size       |-> position.Size,
     PnL        |-> R(0)]

\* the caller's bookkeeping after closePosition, in float arithmetic
settleFloat(trade, position) ==
    LET raw == FMul(FSub(trade.ExitPrice, trade.EntryPrice), position.Size)
    IN  [trade EXCEPT !.PnL = IF position.Side = "SHORT" THEN RNeg(raw) ELSE raw]

\* closes that the floats hold exactly, one of them odd
LevelCloses == {256, 301, 400}

\* ATR values from none to a few units; 1/8 and 1/4 are below half the spacing
\* of the floats around the closes
LevelATRs == {R(0), Rat(1, 8), Rat(1, 4), R(1), R(2), Rat(511, 256)}

\* prices of the candle a position is closed on, around the levels of 301
LevelExitPrices == {290, 299, 301, 304, 310}

LevelCalls ==
    {a \in [signal : {"LONG", "SHORT"},
            candle : {Bar(1, cl, cl, cl) : cl \in LevelCloses},
            atr : LevelATRs, balance : {initialBalance}, fused : BOOLEAN,
            exit : {Bar(2, lo, hi, cl) : lo \in LevelExitPrices,
                                          hi \in LevelExitPrices,
                                          cl \in LevelExitPrices}] :
        a.exit.Low <= a.exit.Close /\ a.exit.Close <= a.exit.High}

InitLevels ==
    /\ pc = "call"
    /\ arg \in LevelCalls
    /\ ret = Nil
    /\ RunIdle

CallOpenPositionFloat ==
    /\ pc = "call"
    /\ ret' = [position |-> openPositionFloat(arg.signal, arg.candle, arg.atr,
                                              arg.balance, arg.fused)]
    /\ pc' = "open"
    /\ UNCHANGED <<arg, calls, strategy, n, i, candle, prevMainCF, longCond,
                   currentPosition, currentBalance, trades, opened, result,
                   divisions, dbResults, raised, retResult, retErr>>

\* the position is converted into a trade on the exit candle, by an exit
\* signal or by the closure at the end of the range
CallClosePositionFloat ==
    /\ pc = "open"
    /\ ret' = [position |-> ret.position,
               trade |-> settleFloat(closePositionFloat(ret.position, arg.exit),
                                     ret.position)]
    /\ pc' = "return"
    /\ UNCHANGED <<arg, calls, strategy, n, i, candle, prevMainCF, longCond,
                   currentPosition, currentBalance, trades, opened, result,
                   divisions, dbResults, raised, retResult, retErr>>

NextLevels == CallOpenPositionFloat \/ CallClosePositionFloat

SpecLevels == InitLevels /\ [][NextLevels]_vars

\* a trade of a position opened with ATR > 0 and positive size
LevelTrade ==
    /\ pc = "return"
    /\ RGt(arg.atr, R(0))
    /\ RGt(ret.position.Size, R(0))

StopLossExit == ret.trade.ExitPrice = ret.position.StopLoss

TakeProfitExit == ret.trade.ExitPrice = ret.position.TakeProfit

\* C28, as stated: for a position opened with ATR > 0 and positive size a trade
\* whose exit price is the stop-loss level has a P&L below zero and a trade
\* whose exit price is the take-profit level a P&L above zero, on either side
C28_LevelExitsHaveSign ==
    LevelTrade =>
        /\ StopLossExit => RLt(ret.trade.PnL, R(0))
        /\ TakeProfitExit => RGt(ret.trade.PnL, R(0))

\* C28: for a position opened with ATR > 0 and positive size a trade whose exit
\* price is a stop-loss level that differs from the entry price has a P&L
\* below zero, and a trade whose exit price is a take-profit level that
\* differs from the entry price has a P&L above zero, on either side; the
\* former counts as losing and the latter as winning
C28_DistinctLevelExitsHaveSign ==
    LevelTrade =>
        /\ (StopLossExit /\ ret.position.StopLoss # ret.position.EntryPrice) =>
              /\ RLt(ret.trade.PnL, R(0))
              /\ Losses(<<ret.trade>>) = {1}
        /\ (TakeProfitExit /\ ret.position.TakeProfit # ret.position.EntryPrice) =>
              /\ RGt(ret.trade.PnL, R(0))
              /\ Gains(<<ret.trade>>) = {1}

\* a SHORT opened at 301 with ATR 1 is stopped out at 303 with a loss
C28_Witness ==
    /\ LevelTrade
    /\ arg.signal = "SHORT"
    /\ arg.candle.Close = 301
    /\ arg.atr = R(1)
    /\ StopLossExit
    /\ ret.trade.ExitPrice = R(303)
    /\ RLt(ret.trade.PnL, R(0))

\* C29: the trades of the ledger are chronological and do not overlap: they
\* are appended in the order of their exits, of two consecutive trades the
\* later is entered strictly after the earlier was exited, and no step of the
\* loop that closes a position opens one
C29_LedgerChronological ==
    /\ [](\A k \in 1..(Len(trades) - 1) :
            /\ trades[k + 1].ExitTime >= trades[k].ExitTime
            /\ trades[k + 1].EntryTime > trades[k].ExitTime)
    /\ [][ClosesPosition => ~OpensPosition
                             /\ trades' = Append(trades, LastTrade')]_vars

\* a position is opened on the bar after the one that closed its predecessor,
\* and closed in turn
C29_Witness ==
    /\ Len(trades) = 2
    /\ trades[1].ExitTime > trades[1].EntryTime
    /\ trades[2].EntryTime = trades[1].ExitTime + 1

\* the balance was just debited by an entry or credited by an exit
BalanceMoved == OpensPosition \/ ClosesPosition

\* C30: with strictly positive prices the balance is strictly positive after
\* every entry and every exit of a run, every entry debits a tenth of the
\* balance and every exit credits an amount that is not negative
C30_BalanceStaysPositive ==
    [][BalanceMoved =>
          /\ RGt(currentBalance', R(0))
          /\ OpensPosition =>
                REq(currentBalance', RMul(currentBalance, Rat(9, 10)))
          /\ ClosesPosition => RLe(currentBalance, currentBalance')]_vars

\* a SHORT whose take-profit level is below zero was closed at a price above
\* zero and a second position was entered on the balance that resulted
C30_Witness ==
    /\ pc = "loop"
    /\ Len(trades) = 1
    /\ Len(opened) = 2
    /\ opened[1].Side = "SHORT"
    /\ opened[1].TakeProfit < 0
    /\ trades[1].ExitPrice > 0
    /\ RLt(trades[1].PnL, R(0))
    /\ RGt(currentBalance, R(0))
    /\ RLt(currentBalance, initialBalance)

=============================================================================
